---- MODULE Spec2Model ----
(***************************************************************************)
(* A state-machine model of echo-downloader:                               *)
(*   - main(): the loop over the course links, the selection and the       *)
(*     download loop with its history file (__main__.py 228-323);          *)
(*   - scrape_videos() and scrape_videos_for_lecture()                     *)
(*     (echo360_downloader.py 46-215);                                     *)
(*   - download() (echo360_downloader.py 357-430);                         *)
(*   - auth_echo360() with the cookie file (auth.py 72-170);               *)
(*   - encrypt() and decrypt() (auth.py 31-56);                            *)
(*   - login_to_ms() and perform_interactive_microsoft_login() with the    *)
(*     worker that launches the browser (auth.py 172-267).                 *)
(* Strings that the code searches or compares (source URLs, the history    *)
(* file) are sequences of one-character strings.                           *)
(***************************************************************************)
EXTENDS Integers, Sequences, FiniteSets, TLC

VARIABLES
    env,         \* what the servers may answer in this behaviour (never changes)
    pc,          \* position of the single thread of control
    halt,        \* "no" | "killed" (process terminated) | "exception" (uncaught)
    run,         \* number of the current invocation of the program
    args,        \* the parsed command line (argparse.Namespace)
    video_target_collection,  \* main(): the selected TargetVideos
    vidx,        \* main(): position of `for video in video_target_collection`
    dirs,        \* file system: the directories that exist
    final,       \* file system: the file at file_name, per file_name
    part,        \* file system: the file at file_name + ".part", per file_name
    history,     \* file system: the file at args.history_file
    resp,        \* download(): the streamed response being consumed
    served,      \* per file_name, the body of the response last obtained for it
    call,        \* what the current download() call has done so far
    calls,       \* the download() calls that returned, in order
    histBefore,  \* the history file as main() read it for the current video
    origins,     \* per selected TargetVideo, the link and the index it was picked by
    \* main() and scrape_videos()
    links,       \* args.course_link
    lidx,        \* position of `for link in links`
    r,           \* scrape_videos(): the syllabus response
    gets,        \* syllabus GETs issued for the current link
    auths,       \* auth_echo360 calls made for the current link
    authRes,     \* what auth_echo360 returned for the current link
    eidx,        \* position of `for i, lecture_session in enumerate(...)`
    available_videos,  \* the targets of the current link
    lecture_session,   \* scrape_videos(): the entry of response["data"] it is at
                       \* while the media request is made, or that it raised on
    response,    \* scrape_videos_for_lecture(): the response it raised on
    authFailed,  \* the positions in links at which auth_echo360 returned False
    \* auth_echo360()
    cookie_file, \* the file echo360.cookies
    session_cookies,   \* where the cookies of the requests.Session come from
    loaded,      \* what load_session_cookies returned
    probe,       \* the final URL of session.get(base_url)
    sso,         \* whether login_to_ms() was called
    driver_url,  \* the browser: driver.current_url
    current_url, \* the local current_url of the polling loop
    last_url,    \* the local last_url of the polling loop
    now,         \* time.time(), in polling periods
    end_time,    \* the local end_time of the polling loop
    authResult,  \* what auth_echo360 returned
    offered,     \* whether save_session_cookies was called
    settled,     \* whether the polling loop left through its break
    \* functions applied on their own
    lessons,     \* the media responses scrape_videos_for_lecture was given
    collected,   \* per response, the videos_to_return it built
    files,       \* a primaryFiles / secondaryFiles list as it arrived
    selected,    \* track_media[0] after the sort, once taken
    course_link, \* a course link handed to scrape_videos, as a string
    syllabus_link,     \* what create_syllabus_link returned for it, once called
    requested,   \* the URLs scrape_videos sent a GET to for it
    user_input,  \* interactive_video_selection: the line last read, split
    selection,   \* its local selection
    returned,    \* whether it has returned selection
    prompts,     \* the number of lines it has read
    dropped,     \* what selection held when it last prompted again
    pickled,     \* the bytes handed to encrypt
    pw_save,     \* the password handed to encrypt
    pw_load,     \* the password handed to decrypt
    encrypted_cookies,  \* what encrypt returned, once called
    decrypted_data,     \* what decrypt returned or raised, once called
    \* perform_interactive_microsoft_login() and the browser launch
    lpc,         \* position of perform_interactive_microsoft_login
    wpc,         \* position of the worker that launches the browser
    ready,       \* the Event: whether it is set
    return_values,     \* the keys of the dict shared with the worker
    username,    \* the e-mail typed
    trail,       \* the operations issued on the browser, with their results
    login_result,      \* what the function returned, or that it raised
    ms_res             \* what login_to_ms returned

rsVars == <<links, lidx, r, gets, auths, authRes, eidx, available_videos,
           lecture_session, response, authFailed>>
auVars == <<cookie_file, session_cookies, loaded, probe, sso, driver_url,
            current_url, last_url, now, end_time, authResult, offered, settled>>
dlVars == <<video_target_collection, vidx, dirs, final, part, history, resp,
            served, call, calls, histBefore, origins>>
nmVars == <<lessons, collected>>
tkVars == <<files, selected>>
lkVars == <<course_link, syllabus_link, requested>>
slVars == <<user_input, selection, returned, prompts, dropped>>
vtVars == <<pickled, pw_save, pw_load, encrypted_cookies, decrypted_data>>
lgVars == <<lpc, wpc, ready, return_values, username, trail, login_result,
            ms_res>>
fnVars == <<nmVars, tkVars, lkVars, slVars, vtVars, lgVars>>
mainVars == <<env, pc, halt, run, args, dlVars, rsVars, auVars>>
vars == <<mainVars, fnVars>>

----------------------------------------------------------------------------
(* Bounds *)

\* Longest video_target_collection the download loop is started with.
MaxTargets == 2
\* Number of times the program is invoked on the same file system.
MaxRuns == 2
\* Longest response body, in chunks of iter_content.
MaxChunks == 2
\* Longest list args.course_link.
MaxLinks == 2
\* Longest response["data"] of a syllabus.
MaxEntries == 2
\* Longest password handed to encrypt and decrypt.
MaxPassword == 2
\* Lines read by one interactive_video_selection call, and items per line.
MaxPrompts == 3
MaxTokens == 2
\* The same two, for the servers of the whole program (Spec).
FullEntries == 1
FullChunks == 1
\* Number of media responses whose targets are built (SpecNaming).
MaxLessons == 2
\* Longest primaryFiles / secondaryFiles list (SpecTrack).
MaxFiles == 3

----------------------------------------------------------------------------
(* Values *)

NL == "\n"

\* Sequences over S of length at most n.
SeqUpTo(S, n) == UNION {[1..k -> S] : k \in 0..n}

\* Python's `s in t` on strings.
IsSubstring(s, t) ==
    \E i \in 0..(Len(t) - Len(s)) : SubSeq(t, i + 1, i + Len(s)) = s

\* The lines of a text in which every line ends with NL (str.splitlines).
RECURSIVE Lines(_)
Lines(t) ==
    IF t = <<>> THEN <<>>
    ELSE LET k == CHOOSE i \in 1..(Len(t) + 1) :
                     /\ (i <= Len(t) => t[i] = NL)
                     /\ \A j \in 1..(i - 1) : t[j] # NL
         IN  <<SubSeq(t, 1, k - 1)>> \o Lines(SubSeq(t, k + 1, Len(t)))

Range(s) == {s[i] : i \in 1..Len(s)}

\* Source URLs (s3Url); one is a proper substring of the other.
UrlU == <<"u">>
UrlUV == <<"u", "v">>

\* TargetVideo.filename: <course label>/<short video id><track suffix>.mp4.
FileNames == [dir : {"A"}, name : {"x", "y"} \X {"", "-primary", "-secondary"}]

TargetVideo == [filename : FileNames, video_src_link : {UrlU, UrlUV}]

\* The TargetVideos the download loop is started with in SpecDownload: two that
\* share a file name, two that share a source URL, and a URL contained in another.
SelectableVideos ==
    {[filename |-> [dir |-> "A", name |-> <<"x", "">>], video_src_link |-> UrlU],
     [filename |-> [dir |-> "A", name |-> <<"x", "">>], video_src_link |-> UrlUV],
     [filename |-> [dir |-> "A", name |-> <<"y", "">>], video_src_link |-> UrlU]}

\* Response bodies: at most env.chunks chunks, each one of env.chunks values.
Bodies == SeqUpTo(1..env.chunks, env.chunks)

\* What session.get(video_src_link, stream=True) can answer.
Responses == [status : {"ok", "error"}, length : BOOLEAN, body : Bodies]

NoFile == [exists |-> FALSE, data |-> <<>>]
NoHistory == [exists |-> FALSE, text |-> <<>>]
NoResp == [status |-> "none", length |-> FALSE, body |-> <<>>, rest |-> <<>>]
NoCall == [active |-> FALSE, path |-> [dir |-> "", name |-> <<"", "">>], hadFile |-> FALSE,
           before |-> NoFile, stale |-> FALSE, fetched |-> FALSE, touched |-> FALSE]

Args == [history_file : BOOLEAN, print_source : BOOLEAN,
         hide_progress_bar : BOOLEAN, all : BOOLEAN]

video == video_target_collection[vidx]
file_name == video.filename

Running == halt = "no"

----------------------------------------------------------------------------
(* main(): the download loop, __main__.py 275-314 *)

\* for video in video_target_collection; the print_source branch.
main_ForVideo ==
    /\ Running /\ pc = "for_video"
    /\ IF vidx > Len(video_target_collection)
       THEN /\ pc' = "exit"
            /\ vidx' = vidx
       ELSE IF args.print_source
       THEN /\ pc' = "for_video"
            /\ vidx' = vidx + 1
       ELSE /\ pc' = IF args.history_file THEN "history" ELSE "makedirs"
            /\ vidx' = vidx
    /\ call' = NoCall
    /\ UNCHANGED <<halt, run, args, video_target_collection, dirs, final, part,
                   history, resp, served, calls, histBefore>>
    /\ UNCHANGED <<env, origins, fnVars, rsVars, auVars>>

\* The history step without its `continue`: the link is appended in any case.
main_HistoryMutNoSkip ==
    /\ Running /\ pc = "history"
    /\ histBefore' = history
    /\ history' = [exists |-> TRUE,
                   text |-> history.text \o video.video_src_link \o <<NL>>]
    /\ pc' = "makedirs"
    /\ UNCHANGED <<halt, run, args, video_target_collection, vidx, dirs, final,
                   part, resp, served, call, calls>>
    /\ UNCHANGED <<env, origins, fnVars, rsVars, auVars>>

\* if args.history_file: skip a video whose link is in the file, else append it.
main_History ==
    /\ Running /\ pc = "history"
    /\ histBefore' = history
    /\ IF history.exists /\ IsSubstring(video.video_src_link, history.text)
       THEN /\ pc' = "for_video"
            /\ vidx' = vidx + 1
            /\ UNCHANGED history
       ELSE /\ history' = [exists |-> TRUE,
                           text |-> history.text \o video.video_src_link \o <<NL>>]
            /\ pc' = "makedirs"
            /\ UNCHANGED vidx
    /\ UNCHANGED <<halt, run, args, video_target_collection, dirs, final, part,
                   resp, served, call, calls>>
    /\ UNCHANGED <<env, origins, fnVars, rsVars, auVars>>

----------------------------------------------------------------------------
(* download(), echo360_downloader.py 357-430 *)

\* os.makedirs(directory) unless it is a directory; makedirs may raise OSError.
download_MakeDirs ==
    /\ Running /\ pc = "makedirs"
    /\ call' = [active |-> TRUE, path |-> file_name,
                hadFile |-> final[file_name].exists, before |-> final[file_name],
                stale |-> part[file_name].data # <<>>, fetched |-> FALSE, touched |-> FALSE]
    /\ IF file_name.dir \in dirs
       THEN /\ pc' = "isfile"
            /\ UNCHANGED <<dirs, halt>>
       ELSE \E ok \in BOOLEAN :
              IF ok
              THEN /\ dirs' = dirs \cup {file_name.dir}
                   /\ pc' = "isfile"
                   /\ UNCHANGED halt
              ELSE /\ halt' = "exception"
                   /\ UNCHANGED <<dirs, pc>>
    /\ UNCHANGED <<run, args, video_target_collection, vidx, final, part, history,
                   resp, served, calls, histBefore>>
    /\ UNCHANGED <<env, origins, fnVars, rsVars, auVars>>

\* The isfile step without its `return`: download() goes on to open the file.
download_IsFileMutNoSkip ==
    /\ Running /\ pc = "isfile"
    /\ pc' = "open"
    /\ UNCHANGED <<halt, run, args, video_target_collection, vidx, dirs, final,
                   part, history, resp, served, call, calls, histBefore>>
    /\ UNCHANGED <<env, origins, fnVars, rsVars, auVars>>

\* if os.path.isfile(file_name): return
download_IsFile ==
    /\ Running /\ pc = "isfile"
    /\ IF final[file_name].exists
       THEN /\ pc' = "for_video"
            /\ vidx' = vidx + 1
            /\ calls' = Append(calls, [path |-> file_name, fetched |-> FALSE])
       ELSE /\ pc' = "open"
            /\ UNCHANGED <<vidx, calls>>
    /\ UNCHANGED <<halt, run, args, video_target_collection, dirs, final, part,
                   history, resp, served, call, histBefore>>
    /\ UNCHANGED <<env, origins, fnVars, rsVars, auVars>>

\* open() of file_name itself rather than of file_name + ".part".
download_OpenMutFinal ==
    /\ Running /\ pc = "open"
    /\ final' = [final EXCEPT ![file_name] = [exists |-> TRUE, data |-> <<>>]]
    /\ call' = [call EXCEPT !.touched = TRUE]
    /\ pc' = "get"
    /\ UNCHANGED <<halt, run, args, video_target_collection, vidx, dirs, part,
                   history, resp, served, calls, histBefore>>
    /\ UNCHANGED <<env, origins, fnVars, rsVars, auVars>>

\* open() in mode "ab": a .part file that exists is kept and written after.
download_OpenMutAppend ==
    /\ Running /\ pc = "open"
    /\ part' = [part EXCEPT ![file_name] = [exists |-> TRUE, data |-> @.data]]
    /\ call' = [call EXCEPT !.touched = TRUE]
    /\ pc' = "get"
    /\ UNCHANGED <<halt, run, args, video_target_collection, vidx, dirs, final,
                   history, resp, served, calls, histBefore>>
    /\ UNCHANGED <<env, origins, fnVars, rsVars, auVars>>

\* with open(file_name + ".part", "wb") as f: creates or truncates the file.
download_Open ==
    /\ Running /\ pc = "open"
    /\ part' = [part EXCEPT ![file_name] = [exists |-> TRUE, data |-> <<>>]]
    /\ call' = [call EXCEPT !.touched = TRUE]
    /\ pc' = "get"
    /\ UNCHANGED <<halt, run, args, video_target_collection, vidx, dirs, final,
                   history, resp, served, calls, histBefore>>
    /\ UNCHANGED <<env, origins, fnVars, rsVars, auVars>>

\* response = session.get(video_src_link, stream=True); the request may raise.
download_Get ==
    /\ Running /\ pc = "get"
    /\ call' = [call EXCEPT !.fetched = TRUE]
    /\ \/ \E answer \in Responses :
            /\ resp' = [status |-> answer.status, length |-> answer.length,
                        body |-> answer.body, rest |-> answer.body]
            /\ served' = [served EXCEPT ![file_name] = answer.body]
            /\ pc' = IF ~answer.length \/ args.hide_progress_bar
                     THEN "write_content" ELSE "iter_content"
            /\ UNCHANGED halt
       \/ /\ halt' = "exception"
          /\ UNCHANGED <<resp, served, pc>>
    /\ UNCHANGED <<run, args, video_target_collection, vidx, dirs, final, part,
                   history, calls, histBefore>>
    /\ UNCHANGED <<env, origins, fnVars, rsVars, auVars>>

\* f.write(response.content): the whole body in one write, or the read raises.
download_WriteContent ==
    /\ Running /\ pc = "write_content"
    /\ \/ /\ part' = [part EXCEPT ![file_name].data = @ \o resp.body]
          /\ resp' = [resp EXCEPT !.rest = <<>>]
          /\ pc' = "rename"
          /\ UNCHANGED halt
       \/ /\ halt' = "exception"
          /\ UNCHANGED <<part, resp, pc>>
    /\ UNCHANGED <<run, args, video_target_collection, vidx, dirs, final, history,
                   served, call, calls, histBefore>>
    /\ UNCHANGED <<env, origins, fnVars, rsVars, auVars>>

\* for data in response.iter_content(chunk_size=4096): f.write(data)
download_IterContent ==
    /\ Running /\ pc = "iter_content"
    /\ IF resp.rest = <<>>
       THEN /\ pc' = "rename"
            /\ UNCHANGED <<part, resp, halt>>
       ELSE \/ /\ part' = [part EXCEPT ![file_name].data = Append(@, Head(resp.rest))]
               /\ resp' = [resp EXCEPT !.rest = Tail(@)]
               /\ UNCHANGED <<pc, halt>>
            \/ /\ halt' = "exception"
               /\ UNCHANGED <<part, resp, pc>>
    /\ UNCHANGED <<run, args, video_target_collection, vidx, dirs, final, history,
                   served, call, calls, histBefore>>
    /\ UNCHANGED <<env, origins, fnVars, rsVars, auVars>>

\* os.rename(file_name + ".part", file_name), then download() returns.
download_Rename ==
    /\ Running /\ pc = "rename"
    /\ final' = [final EXCEPT ![file_name] = part[file_name]]
    /\ part' = [part EXCEPT ![file_name] = NoFile]
    /\ calls' = Append(calls, [path |-> file_name, fetched |-> TRUE])
    /\ resp' = NoResp
    /\ vidx' = vidx + 1
    /\ pc' = "for_video"
    /\ UNCHANGED <<halt, run, args, video_target_collection, dirs, history, served,
                   call, histBefore>>
    /\ UNCHANGED <<env, origins, fnVars, rsVars, auVars>>

----------------------------------------------------------------------------
(* Values of the catalogue: links, syllabus and media responses *)

\* args.course_link entries, by what main() and create_syllabus_link() test:
\* "other" lacks "echo360.org.uk/section"; "malformed" holds it but does not
\* match the pattern; "course" matches.
LinkKinds == {"other", "malformed", "course"}

\* create_syllabus_link(link): the syllabus URL, or None.
create_syllabus_link(link) == IF link = "course" THEN "syllabus" ELSE "None"

\* A syllabus entry (lecture_session), by the keys the code reads:
\* type; lesson ("lesson" in it); name ('name' in its lesson); inner ("lesson"
\* in its lesson); medias (absent, empty, some); flags (isPast, hasContent and
\* hasVideo all true); innerName ('name' in the inner lesson).
Lesson == [type |-> "SyllabusLessonType", lesson |-> TRUE, name |-> FALSE,
           inner |-> TRUE, medias |-> "some", flags |-> TRUE, innerName |-> TRUE]
EntryShapes ==
    {Lesson,
     [Lesson EXCEPT !.medias = "empty"],
     [Lesson EXCEPT !.flags = FALSE],
     [Lesson EXCEPT !.type = "SyllabusGroupType", !.name = TRUE],
     [Lesson EXCEPT !.type = "SyllabusGroupType", !.lesson = FALSE,
                    !.inner = FALSE, !.medias = "absent", !.innerName = FALSE],
     [Lesson EXCEPT !.lesson = FALSE, !.inner = FALSE, !.medias = "absent",
                    !.innerName = FALSE],
     [Lesson EXCEPT !.name = TRUE, !.medias = "absent"],
     [Lesson EXCEPT !.medias = "absent"]}

\* What session.get(syllabus_link) can answer: a redirect to the login page (an
\* HTML page), a body that is not JSON, or JSON with or without a status. Of
\* response["data"] the response holds the length; the loop reads its entries
\* one at a time, and each entry's shape is drawn when the loop reaches it.
LoginPage == [login |-> TRUE, json |-> FALSE, status |-> "absent", data |-> 0]
NoSyllabus == [login |-> FALSE, json |-> FALSE, status |-> "absent", data |-> 0]
SyllabusResponses ==
    {LoginPage, NoSyllabus,
     [NoSyllabus EXCEPT !.json = TRUE],
     [NoSyllabus EXCEPT !.json = TRUE, !.status = "error"]}
    \cup {[login |-> FALSE, json |-> TRUE, status |-> "ok", data |-> n] :
             n \in 0..env.entries}

\* One file of a track (MediaJsonType).
FileLow == [s3Url |-> UrlU, height |-> 270, size |-> 5]
FileHigh == [s3Url |-> UrlUV, height |-> 720, size |-> 9]
Track == <<FileLow, FileHigh>>

\* A per-lesson media response, by the keys the code reads.
OkMedia(id, p, s) ==
    [json |-> TRUE, status |-> "ok", data |-> TRUE, video |-> TRUE, media |-> TRUE,
     mstatus |-> "Processed", inner |-> TRUE, current |-> TRUE,
     userSection |-> TRUE, sectionNumber |-> "A", createdAt |-> TRUE,
     mediaId |-> id, primaryFiles |-> p, secondaryFiles |-> s]
BothTracks == OkMedia("x", Track, Track)
NoMedia == [BothTracks EXCEPT !.json = FALSE]
MediaDeviations ==
    {NoMedia,
     [BothTracks EXCEPT !.status = "absent"],
     [BothTracks EXCEPT !.status = "error"],
     [BothTracks EXCEPT !.data = FALSE],
     [BothTracks EXCEPT !.video = FALSE],
     [BothTracks EXCEPT !.media = FALSE],
     [BothTracks EXCEPT !.mstatus = "Processing"],
     [BothTracks EXCEPT !.inner = FALSE],
     [BothTracks EXCEPT !.current = FALSE],
     [BothTracks EXCEPT !.userSection = FALSE],
     [BothTracks EXCEPT !.sectionNumber = "absent"],
     [BothTracks EXCEPT !.createdAt = FALSE],
     [BothTracks EXCEPT !.mediaId = "absent"]}
MediaResponses ==
    MediaDeviations
    \cup {BothTracks, OkMedia("x", Track, <<>>), OkMedia("y", <<>>, Track),
          OkMedia("x", <<>>, <<>>)}

\* media.sort(key=(height, size), reverse=True)[0]: a file with the greatest
\* key; of several, the first in the list (the sort is stable).
KeyLess(a, b) == a.height < b.height \/ (a.height = b.height /\ a.size < b.size)
Best(track) ==
    LET i == CHOOSE i \in 1..Len(track) :
                 /\ \A j \in 1..Len(track) : ~KeyLess(track[i], track[j])
                 /\ \A j \in 1..(i - 1) : KeyLess(track[j], track[i])
    IN  track[i]

\* The outcome of scrape_videos_for_lecture on response m: "raise" or a list.
MediaRaises(m) ==
    /\ m.json
    /\ \/ m.status = "absent"
       \/ /\ m.status = "ok"
          /\ m.data /\ m.video /\ m.media /\ m.mstatus = "Processed"
          /\ m.inner /\ m.current
          /\ m.userSection /\ m.sectionNumber # "absent"
          /\ (~m.createdAt \/ m.mediaId = "absent")

TrackTarget(m, label, track) ==
    LET both == m.primaryFiles # <<>> /\ m.secondaryFiles # <<>>
    IN  IF track = <<>> THEN <<>>
        ELSE <<[filename |-> [dir |-> m.sectionNumber,
                              name |-> <<m.mediaId,
                                         IF both THEN label ELSE "">>],
                video_src_link |-> Best(track).s3Url]>>

MediaTargets(m) ==
    IF \/ ~m.json \/ m.status # "ok"
       \/ ~m.data \/ ~m.video \/ ~m.media \/ m.mstatus # "Processed"
       \/ ~m.inner \/ ~m.current
       \/ ~m.userSection \/ m.sectionNumber = "absent"
    THEN <<>>
    ELSE TrackTarget(m, "-primary", m.primaryFiles)
         \o TrackTarget(m, "-secondary", m.secondaryFiles)

\* The same set as a descending list.
RECURSIVE SortedMutDescending(_)
SortedMutDescending(S) ==
    IF S = {} THEN <<>>
    ELSE LET m == CHOOSE x \in S : \A y \in S : x >= y
         IN  <<m>> \o SortedMutDescending(S \ {m})

\* A set of indices as the ascending list sorted(set(selection)).
RECURSIVE Sorted(_)
Sorted(S) ==
    IF S = {} THEN <<>>
    ELSE LET m == CHOOSE x \in S : \A y \in S : x <= y
         IN  <<m>> \o Sorted(S \ {m})

----------------------------------------------------------------------------
(* main(): the loop over the links, __main__.py 228-271 *)

link == links[lidx]

\* scrape_videos() returns `result` to main() at line 250.
Return(result) ==
    /\ available_videos' = result
    /\ pc' = "found"

\* for link in links: skip a link without "echo360.org.uk/section".
main_ForLink ==
    /\ Running /\ pc = "for_link"
    /\ IF lidx > Len(links)
       THEN /\ pc' = "for_video"
            /\ UNCHANGED lidx
       ELSE IF link = "other"
       THEN /\ lidx' = lidx + 1
            /\ UNCHANGED pc
       ELSE /\ pc' = "scrape_videos"
            /\ UNCHANGED lidx
    /\ gets' = 0 /\ auths' = 0 /\ authRes' = "none"
    /\ r' = NoSyllabus /\ eidx' = 1 /\ available_videos' = <<>>
    /\ lecture_session' = Lesson /\ response' = NoMedia
    /\ UNCHANGED <<env, origins, fnVars, halt, run, args, links, authFailed, dlVars, auVars>>

\* len(available_videos) == 0: continue; else the selection (args.all or
\* interactive) and video_target_collection.append(available_videos[i]).
main_Found ==
    /\ Running /\ pc = "found"
    /\ IF available_videos = <<>>
       THEN /\ lidx' = lidx + 1
            /\ pc' = "for_link"
            /\ UNCHANGED <<video_target_collection, origins, halt>>
       ELSE \E sel \in IF args.all
                       THEN {0..(Len(available_videos) - 1)}
                       ELSE SUBSET (0..Len(available_videos)) :
              LET indices == Sorted(sel)
                  valid == {k \in 1..Len(indices) :
                              \A j \in 1..k : indices[j] < Len(available_videos)}
                  picked == [k \in 1..Cardinality(valid) |->
                               available_videos[indices[k] + 1]]
              IN  /\ video_target_collection' = video_target_collection \o picked
                  /\ origins' = origins \o [k \in 1..Cardinality(valid) |->
                                              <<lidx, indices[k]>>]
                  /\ IF Cardinality(valid) = Len(indices)
                     THEN /\ lidx' = lidx + 1
                          /\ pc' = "for_link"
                          /\ UNCHANGED halt
                     ELSE /\ halt' = "exception"
                          /\ UNCHANGED <<lidx, pc>>
    /\ UNCHANGED <<env, fnVars, run, args, links, r, gets, auths, authRes, eidx,
                   available_videos, lecture_session, response, authFailed,
                   auVars>>
    /\ UNCHANGED <<vidx, dirs, final, part, history, resp, served, call, calls,
                   histBefore>>

----------------------------------------------------------------------------
(* scrape_videos(), echo360_downloader.py 46-122 *)

\* syllabus_link = create_syllabus_link(link); r = session.get(syllabus_link)
scrape_videos_Get ==
    /\ Running /\ pc = "scrape_videos"
    /\ IF create_syllabus_link(link) = "None"
       THEN /\ Return(<<>>)
            /\ UNCHANGED <<r, gets, halt>>
       ELSE \/ \E answer \in SyllabusResponses :
                 /\ r' = answer
                 /\ gets' = gets + 1
                 /\ pc' = "login"
                 /\ UNCHANGED <<available_videos, halt>>
            \/ /\ halt' = "exception"
               /\ gets' = gets + 1
               /\ UNCHANGED <<r, pc, available_videos>>
    /\ UNCHANGED <<env, origins, fnVars, run, args, links, lidx, auths, authRes, eidx,
                   lecture_session, response, authFailed, dlVars, auVars>>

\* The login step without its `return []`: the second GET follows a failed
\* auth_echo360 as well.
scrape_videos_AuthMutNoReturn ==
    /\ Running /\ pc = "login"
    /\ IF r.login
       THEN \E result \in {"true", "false"} :
              /\ auths' = auths + 1
              /\ authRes' = result
              /\ authFailed' = IF result = "false" THEN authFailed \cup {lidx}
                                ELSE authFailed
              /\ pc' = "retry"
              /\ UNCHANGED <<available_videos, halt>>
       ELSE /\ pc' = "json"
            /\ UNCHANGED <<auths, authRes, authFailed, available_videos, halt>>
    /\ UNCHANGED <<env, origins, fnVars, run, args, links, lidx, r, gets, eidx, lecture_session,
                   response, dlVars, auVars>>

\* if "login.echo360.org.uk" in r.url: if not auth_echo360(session, link): return []
scrape_videos_Auth ==
    /\ Running /\ pc = "login"
    /\ IF r.login
       THEN \E result \in {"true", "false", "raise"} :
              /\ auths' = auths + 1
              /\ authRes' = result
              /\ authFailed' = IF result = "false" THEN authFailed \cup {lidx}
                                ELSE authFailed
              /\ CASE result = "true" ->
                        pc' = "retry" /\ UNCHANGED <<available_videos, halt>>
                   [] result = "false" ->
                        Return(<<>>) /\ UNCHANGED halt
                   [] OTHER ->
                        halt' = "exception" /\ UNCHANGED <<pc, available_videos>>
       ELSE /\ pc' = "json"
            /\ UNCHANGED <<auths, authRes, authFailed, available_videos, halt>>
    /\ UNCHANGED <<env, origins, fnVars, run, args, links, lidx, r, gets, eidx, lecture_session,
                   response, dlVars, auVars>>

\* The second GET done as the first is: its response is tested for the login
\* page again.
scrape_videos_RetryMutLoop ==
    /\ Running /\ pc = "retry"
    /\ \E answer \in SyllabusResponses :
          /\ r' = answer
          /\ gets' = gets + 1
          /\ pc' = "login"
    /\ UNCHANGED <<env, origins, fnVars, halt, run, args, links, lidx, auths, authRes, eidx,
                   available_videos, lecture_session, response, authFailed, dlVars, auVars>>

\* r = session.get(syllabus_link), the second time
scrape_videos_Retry ==
    /\ Running /\ pc = "retry"
    /\ gets' = gets + 1
    /\ \/ \E answer \in SyllabusResponses :
             /\ r' = answer
             /\ pc' = "json"
             /\ UNCHANGED halt
       \/ /\ halt' = "exception"
          /\ UNCHANGED <<r, pc>>
    /\ UNCHANGED <<env, origins, fnVars, run, args, links, lidx, auths, authRes, eidx,
                   available_videos, lecture_session, response, authFailed, dlVars, auVars>>

\* response = r.json(); the status check, whose log line reads response['status'].
scrape_videos_Json ==
    /\ Running /\ pc = "json"
    /\ IF ~r.json
       THEN Return(<<>>) /\ UNCHANGED halt
       ELSE IF r.status = "absent"
       THEN halt' = "exception" /\ UNCHANGED <<pc, available_videos>>
       ELSE IF r.status # "ok"
       THEN Return(<<>>) /\ UNCHANGED halt
       ELSE pc' = "for_lecture" /\ UNCHANGED <<available_videos, halt>>
    /\ UNCHANGED <<env, origins, fnVars, run, args, links, lidx, r, gets, auths, authRes, eidx,
                   lecture_session, response, authFailed, dlVars, auVars>>

\* The entry's log line reads lecture_session['lesson']['name'].
EntryInvalid(e) ==
    e.type # "SyllabusLessonType" \/ ~e.lesson \/ ~e.inner \/ e.medias = "absent"
EntryRaises(e) ==
    IF EntryInvalid(e)
    THEN ~e.lesson \/ ~e.name
    ELSE (~e.flags \/ e.medias = "empty") /\ ~e.innerName

\* One iteration of the loop over response["data"], up to the call of
\* scrape_videos_for_lecture; after the last entry, return targets.
scrape_videos_ForLecture ==
    /\ Running /\ pc = "for_lecture"
    /\ IF eidx > r.data
       THEN /\ Return(available_videos)
            /\ UNCHANGED <<eidx, halt, lecture_session>>
       ELSE \E e \in EntryShapes :
              IF EntryRaises(e)
              THEN /\ halt' = "exception"
                   /\ lecture_session' = e
                   /\ UNCHANGED <<pc, eidx, available_videos>>
              ELSE IF EntryInvalid(e)
              THEN /\ eidx' = eidx + 1
                   /\ UNCHANGED <<pc, available_videos, halt, lecture_session>>
              ELSE /\ pc' = "lecture"
                   /\ lecture_session' = e
                   /\ UNCHANGED <<eidx, available_videos, halt>>
    /\ UNCHANGED <<env, origins, fnVars, run, args, links, lidx, r, gets, auths, authRes, response,
                   authFailed, dlVars, auVars>>

\* targets += scrape_videos_for_lecture(lecture_id, session), lines 124-215.
scrape_videos_for_lecture ==
    /\ Running /\ pc = "lecture"
    /\ \/ \E m \in MediaResponses :
             IF MediaRaises(m)
             THEN /\ halt' = "exception"
                  /\ response' = m
                  /\ UNCHANGED <<pc, eidx, available_videos, lecture_session>>
             ELSE /\ available_videos' = available_videos \o MediaTargets(m)
                  /\ eidx' = eidx + 1
                  /\ pc' = "for_lecture"
                  /\ lecture_session' = Lesson
                  /\ UNCHANGED <<halt, response>>
       \/ /\ halt' = "exception"
          /\ UNCHANGED <<pc, eidx, available_videos, response, lecture_session>>
    /\ UNCHANGED <<env, origins, fnVars, run, args, links, lidx, r, gets, auths, authRes,
                   authFailed, dlVars, auVars>>

----------------------------------------------------------------------------
(* The TargetVideos of a lesson, as strings: scrape_videos_for_lecture 162-215 *)
(* A string is the sequence of its symbols; a symbol is one character or a    *)
(* run of letters and digits.                                                 *)

\* The name left as it is.
remove_illegal_charactersMutNone(name) == name

\* illegal_chars = '?<>:*|"^/\\'
illegal_chars == <<"?", "<", ">", ":", "*", "|", "\"", "^", "/", "\\">>

\* file_name.replace(c, "")
Replace(name, c) == SelectSeq(name, LAMBDA x : x # c)

\* for c in illegal_chars: file_name = file_name.replace(c, "")
RECURSIVE RemoveEach(_, _)
RemoveEach(name, chars) ==
    IF chars = <<>> THEN name
    ELSE RemoveEach(Replace(name, Head(chars)), Tail(chars))

remove_illegal_characters(name) == RemoveEach(name, illegal_chars)

\* os.sep
os_sep == "/"

\* s.split("-")[0]: what precedes the first "-".
RECURSIVE SplitFirst(_)
SplitFirst(s) ==
    IF s = <<>> \/ Head(s) = "-" THEN <<>>
    ELSE <<Head(s)>> \o SplitFirst(Tail(s))

\* datetime.fromisoformat(createdAt.replace("Z", "+00:00")): the date fields.
fromisoformat(createdAt) ==
    [year |-> createdAt[1], month |-> createdAt[3], day |-> createdAt[5]]

\* video_date.strftime("%Y-%m-%d")
strftime(video_date) ==
    <<video_date.year, "-", video_date.month, "-", video_date.day>>

\* response["data"][0] of a response that passed the tests of lines 138-160.
CourseTitles == {<<"CS101">>, <<"CS", "/", "101">>}
CreatedAts ==
    {<<"2024", "-", "01", "-", "15", "T", "10", ":", "00", "Z">>,
     <<"2024", "-", "01", "-", "16", "T", "10", ":", "00", "Z">>}
MediaIds ==
    {<<"1a2b", "-", "aaaa">>, <<"1a2b", "-", "bbbb">>, <<"9", "*", "f", "-", "aaaa">>}
MediaNames == {<<"absent">>, <<"Intro", ":", "1">>}
FileSecond == [s3Url |-> <<"w">>, height |-> 480, size |-> 7]
ProcessedMedia ==
    [sectionNumber : CourseTitles, createdAt : CreatedAts, mediaId : MediaIds,
     name : MediaNames, primaryFiles : {<<>>, Track},
     secondaryFiles : {<<>>, <<FileSecond>>}]

\* The iteration with the track label appended whether or not both tracks exist.
TargetOfMutAlwaysLabel(m, track_label, track_media) ==
    LET course_title == m.sectionNumber
        lecture_title == IF m.name = <<"absent">> THEN <<"Lecture">> ELSE m.name
        video_date == fromisoformat(m.createdAt)
        video_id == SplitFirst(m.mediaId)
        both == TRUE
    IN  IF track_media = <<>> THEN <<>>
        ELSE <<[filename |->
                   remove_illegal_characters(course_title)
                   \o <<os_sep>>
                   \o remove_illegal_characters(
                        strftime(video_date) \o <<"-">> \o video_id
                        \o (IF both THEN <<"-", track_label>> ELSE <<>>)
                        \o <<".mp4">>),
                video_src_link |-> Best(track_media).s3Url,
                title |-> lecture_title
                          \o (IF both THEN <<" [", track_label, "]">> ELSE <<>>),
                episode_name |-> strftime(video_date) \o <<" ">> \o lecture_title
                          \o (IF both THEN <<" [", track_label, "]">> ELSE <<>>)]>>

\* One iteration of the loop of lines 197-213.
TargetOf(m, track_label, track_media) ==
    LET course_title == m.sectionNumber
        lecture_title == IF m.name = <<"absent">> THEN <<"Lecture">> ELSE m.name
        video_date == fromisoformat(m.createdAt)
        video_id == SplitFirst(m.mediaId)
        both == m.primaryFiles # <<>> /\ m.secondaryFiles # <<>>
    IN  IF track_media = <<>> THEN <<>>
        ELSE <<[filename |->
                   remove_illegal_characters(course_title)
                   \o <<os_sep>>
                   \o remove_illegal_characters(
                        strftime(video_date) \o <<"-">> \o video_id
                        \o (IF both THEN <<"-", track_label>> ELSE <<>>)
                        \o <<".mp4">>),
                video_src_link |-> Best(track_media).s3Url,
                title |-> lecture_title
                          \o (IF both THEN <<" [", track_label, "]">> ELSE <<>>),
                episode_name |-> strftime(video_date) \o <<" ">> \o lecture_title
                          \o (IF both THEN <<" [", track_label, "]">> ELSE <<>>)]>>

\* The secondary track's target put before the primary's.
videos_to_returnMutSecondaryFirst(m) ==
    TargetOf(m, "secondary", m.secondaryFiles)
    \o TargetOf(m, "primary", m.primaryFiles)

\* videos_to_return, lines 196-215
videos_to_return(m) ==
    TargetOf(m, "primary", m.primaryFiles)
    \o TargetOf(m, "secondary", m.secondaryFiles)

\* scrape_videos_for_lecture on one more processed response.
scrape_videos_for_lecture_Targets ==
    /\ Len(lessons) < MaxLessons
    /\ \E m \in ProcessedMedia :
          /\ lessons' = Append(lessons, m)
          /\ collected' = Append(collected, videos_to_return(m))
    /\ UNCHANGED <<mainVars, lgVars, tkVars, lkVars, slVars, vtVars>>

\* The files a track list is made of: two heights, two sizes.
TrackFiles == [s3Url : {UrlU}, height : {480, 720}, size : {50, 100}]

\* The list left as it arrived.
sortMutUnsorted(track) == track

\* media.sort(key=lambda media: (media["height"], media["size"]), reverse=True):
\* descending by key, entries of equal key in the order they arrived.
RECURSIVE InsertDesc(_, _)
InsertDesc(x, sorted) ==
    IF sorted = <<>> THEN <<x>>
    ELSE IF KeyLess(Head(sorted), x) THEN <<x>> \o sorted
    ELSE <<Head(sorted)>> \o InsertDesc(x, Tail(sorted))

RECURSIVE sort(_)
sort(track) ==
    IF track = <<>> THEN <<>>
    ELSE InsertDesc(track[Len(track)], sort(SubSeq(track, 1, Len(track) - 1)))

\* The sort of line 191 and track_media[0] of line 207.
scrape_videos_for_lecture_Select ==
    /\ selected = <<>>
    /\ files # <<>>
    /\ selected' = <<sort(files)[1]>>
    /\ UNCHANGED <<mainVars, lgVars, nmVars, lkVars, slVars, vtVars, files>>

----------------------------------------------------------------------------
(* create_syllabus_link(link) on strings, and the head of scrape_videos *)

\* The symbols that are runs of [A-Za-z0-9-].
IdSymbols == {"http", "https", "ftp", "section", "lesson", "abc", "12", "-",
              "home", "tab", "def", "syllabus"}

\* ([A-Za-z0-9-]+), greedy: the longest run of such symbols at the head of s.
RECURSIVE IdRun(_)
IdRun(s) ==
    IF s = <<>> \/ Head(s) \notin IdSymbols THEN <<>>
    ELSE <<Head(s)>> \o IdRun(Tail(s))

\* re.match(pat, link), pat = https?\:\/\/echo360\.org\.uk\/section\/
\* ([A-Za-z0-9-]+)(\/.*)? : anchored at the start of the string only. The result is
\* <<match.group(1)>>, or <<>> for no match.
re_match(url) ==
    IF /\ Len(url) >= 9
       /\ url[1] \in {"http", "https"}
       /\ SubSeq(url, 2, 8) = <<":", "/", "/", "echo360.org.uk", "/", "section", "/">>
       /\ url[9] \in IdSymbols
    THEN <<IdRun(SubSeq(url, 9, Len(url)))>>
    ELSE <<>>

\* f"https://echo360.org.uk/section/{match.group(1)}/syllabus", or None (<<>>).
SyllabusLinkOf(url) ==
    IF re_match(url) = <<>> THEN <<>>
    ELSE <<"https", ":", "/", "/", "echo360.org.uk", "/", "section", "/">>
         \o re_match(url)[1] \o <<"/", "syllabus">>

\* The links create_syllabus_link is applied to, in parts.
LinkStrings ==
    {lead \o <<scheme, ":", "/", "/", host, "/", kind, "/">> \o id \o rest :
        lead \in {<<>>, <<" ">>},
        scheme \in {"http", "https", "ftp"},
        host \in {"echo360.org.uk", "login.echo360.org.uk"},
        kind \in {"section", "lesson"},
        id \in {<<>>, <<"abc">>, <<"abc", "-", "12">>},
        rest \in {<<>>, <<"/">>, <<"/", "home">>, <<"?", "tab">>, <<"_", "def">>}}

\* syllabus_link = create_syllabus_link(link); if not syllabus_link: return [];
\* r = session.get(syllabus_link)
scrape_videos_Link ==
    /\ syllabus_link = <<"uncalled">>
    /\ syllabus_link' = SyllabusLinkOf(course_link)
    /\ requested' = IF SyllabusLinkOf(course_link) = <<>> THEN <<>>
                     ELSE <<SyllabusLinkOf(course_link)>>
    /\ UNCHANGED <<mainVars, lgVars, nmVars, tkVars, slVars, vtVars, course_link>>

----------------------------------------------------------------------------
(* interactive_video_selection(available_videos) *)

\* int(s) for the numerals of the model: <<value>>, or <<>> for ValueError.
Numerals == ("0" :> 0) @@ ("1" :> 1) @@ ("2" :> 2) @@ ("3" :> 3)
int(text) ==
    IF Len(text) = 1 /\ text[1] \in DOMAIN Numerals THEN <<Numerals[text[1]]>>
    ELSE <<>>

\* item.split("-"): the parts between the "-" of item.
RECURSIVE split(_)
split(item) ==
    IF item = <<>> THEN <<(<<>>)>>
    ELSE LET rest == split(Tail(item))
         IN  IF Head(item) = "-" THEN <<(<<>>)>> \o rest
             ELSE <<(<<Head(item)>> \o Head(rest))>> \o Tail(rest)

\* list(range(a, b)): the range without its end.
rangeMutExclusive(a, b) == [i \in 1..(b - a) |-> a + i - 1]

\* list(range(a, b + 1))
RECURSIVE range(_, _)
range(a, b) == IF a > b THEN <<>> ELSE <<a>> \o range(a + 1, b)

\* What one item adds to selection: [ok, add]; ok is FALSE for ValueError.
ParseItem(item) ==
    IF "-" \in Range(item)
    THEN LET parts == split(item)
         IN  IF Len(parts) # 2 \/ int(parts[1]) = <<>> \/ int(parts[2]) = <<>>
             THEN [ok |-> FALSE, add |-> <<>>]
             ELSE [ok |-> TRUE, add |-> range(int(parts[1])[1], int(parts[2])[1])]
    ELSE IF int(item) = <<>> THEN [ok |-> FALSE, add |-> <<>>]
         ELSE [ok |-> TRUE, add |-> int(item)]

\* for item in user_input: ... break / else: break -- from selection sel on.
RECURSIVE ParseLine(_, _)
ParseLine(line, sel) ==
    IF line = <<>> THEN [ok |-> TRUE, selection |-> sel]
    ELSE IF ~ParseItem(Head(line)).ok THEN [ok |-> FALSE, selection |-> sel]
    ELSE ParseLine(Tail(line), sel \o ParseItem(Head(line)).add)

\* The items a line is made of: integers, ranges (one of them descending), a
\* word, a range with a word, a range of three, and a negative integer.
Items ==
    {<<"0">>, <<"3">>, <<"1", "-", "2">>, <<"2", "-", "1">>, <<"x">>,
     <<"1", "-", "x">>, <<"0", "-", "1", "-", "2">>, <<"-", "1">>}

\* One pass of `while True` that carries selection over from the line before.
interactive_video_selection_LineMutKeep ==
    /\ ~returned /\ prompts < MaxPrompts
    /\ \E line \in SeqUpTo(Items, MaxTokens) :
          LET parsed == ParseLine(line, selection)
          IN  /\ user_input' = line
              /\ prompts' = prompts + 1
              /\ returned' = parsed.ok
              /\ selection' = IF parsed.ok THEN Sorted(Range(parsed.selection))
                               ELSE parsed.selection
              /\ dropped' = IF parsed.ok THEN dropped ELSE parsed.selection
    /\ UNCHANGED <<mainVars, lgVars, nmVars, tkVars, lkVars, vtVars>>

\* One pass of `while True`: a line is read and parsed from selection = [];
\* when every item parsed, selection = sorted(list(set(selection))) is returned.
interactive_video_selection_Line ==
    /\ ~returned /\ prompts < MaxPrompts
    /\ \E line \in SeqUpTo(Items, MaxTokens) :
          LET parsed == ParseLine(line, <<>>)
          IN  /\ user_input' = line
              /\ prompts' = prompts + 1
              /\ returned' = parsed.ok
              /\ selection' = IF parsed.ok THEN Sorted(Range(parsed.selection))
                               ELSE parsed.selection
              /\ dropped' = IF parsed.ok THEN dropped ELSE parsed.selection
    /\ UNCHANGED <<mainVars, lgVars, nmVars, tkVars, lkVars, vtVars>>

----------------------------------------------------------------------------
(* encrypt(data, password) and decrypt(data, password), auth.py 31-56 *)

\* The zero byte.
NUL == "NUL"

\* The key HMAC works with: a key shorter than the hash's block is padded with
\* zero bytes up to the block, so it is the password's bytes up to trailing
\* zero bytes. (The passwords of the model are shorter than a block.)
RECURSIVE HmacKey(_)
HmacKey(bytes) ==
    IF bytes # <<>> /\ bytes[Len(bytes)] = NUL
    THEN HmacKey(SubSeq(bytes, 1, Len(bytes) - 1))
    ELSE bytes

\* base64.urlsafe_b64encode(kdf.derive(password.encode())): PBKDF2-HMAC-SHA256
\* of the password under the salt, as a term.
derive(password, salt) == [hmac_key |-> HmacKey(password), salt |-> salt]

\* Fernet(key).encrypt(data), as a term, and Fernet(key).decrypt(token), which
\* returns the data or raises InvalidToken.
fernet_encrypt(key, data) == [key |-> key, data |-> data]
fernet_decrypt(key, token) ==
    IF token.key = key THEN [raised |-> "none", data |-> token.data]
    ELSE [raised |-> "InvalidToken", data |-> <<>>]

\* encrypt: salt + encrypted_data, the salt being os.urandom(16).
encrypt(data, password, salt) ==
    [salt |-> salt, encrypted_data |-> fernet_encrypt(derive(password, salt), data)]

\* decrypt: salt = data[:16], encrypted_data = data[16:]
decrypt(data, password) ==
    fernet_decrypt(derive(password, data.salt), data.encrypted_data)

\* Non-empty passwords of at most MaxPassword characters, and payloads.
Passwords == SeqUpTo({"a", "b", NUL}, MaxPassword) \ {<<>>}
Payloads == {<<>>, <<"c">>, <<"c", "d">>}

\* encrypted_cookies = encrypt(pickle.dumps(unencrypted_cookies), password)
vault_Encrypt ==
    /\ encrypted_cookies = <<>>
    /\ \E salt \in {"s1", "s2"} :
          encrypted_cookies' = <<encrypt(pickled, pw_save, salt)>>
    /\ UNCHANGED <<mainVars, lgVars, nmVars, tkVars, lkVars, slVars, pickled, pw_save,
                   pw_load, decrypted_data>>

\* decrypted_data = decrypt(cookies_data, password)
vault_Decrypt ==
    /\ encrypted_cookies # <<>> /\ decrypted_data = <<>>
    /\ decrypted_data' = <<decrypt(encrypted_cookies[1], pw_load)>>
    /\ UNCHANGED <<mainVars, lgVars, nmVars, tkVars, lkVars, slVars, pickled, pw_save,
                   pw_load, encrypted_cookies>>

----------------------------------------------------------------------------
(* auth_echo360(session, base_url) *)

\* A URL is the sequence of its parts; `in` and startswith are taken over parts.
StartsWith(t, s) == Len(s) <= Len(t) /\ SubSeq(t, 1, Len(s)) = s

\* "https://echo360.org.uk"
PlatformPrefix == <<"https://", "echo360.org.uk">>
\* "login.echo360.org.uk/login"
LoginPagePart == <<"login", ".", "echo360.org.uk", "/", "login">>
\* "login"
LoginPart == <<"login">>

\* The places a request or the browser can end at: a page of the platform, the
\* platform's login page, a page of the platform whose path has "login" in it,
\* and a page of the identity provider.
UrlHome == <<"https://", "echo360.org.uk", "/", "home">>
UrlLoginPage == <<"https://", "login", ".", "echo360.org.uk", "/", "login">>
UrlPlatformLogin == <<"https://", "echo360.org.uk", "/", "login">>
UrlIdp == <<"https://", "idp", "/", "saml">>
Urls == {UrlHome, UrlLoginPage, UrlPlatformLogin, UrlIdp}

\* The states of the file echo360.cookies: absent, pickled (False, cookies),
\* pickled (True, encrypted cookies), or not a pickle of such a pair.
CookieFiles == {"missing", "plain", "encrypted", "corrupt"}

\* time.time() counts in periods of the polling loop's time.sleep(0.2).
TicksPerSecond == 5
\* timeout = 30
timeout == 30

\* return <result>
AuthReturn(result) ==
    /\ authResult' = result
    /\ pc' = "returned"

\* load_session_cookies(session, "echo360.cookies")
auth_LoadCookies ==
    /\ Running /\ pc = "auth"
    /\ CASE cookie_file = "missing" ->
              /\ loaded' = "false" /\ pc' = "login_to_ms"
              /\ UNCHANGED <<session_cookies, halt>>
         [] cookie_file = "corrupt" ->
              /\ halt' = "exception"
              /\ UNCHANGED <<loaded, pc, session_cookies>>
         [] cookie_file = "plain" ->
              /\ loaded' = "true" /\ pc' = "probe"
              /\ session_cookies' = "file"
              /\ UNCHANGED halt
         [] OTHER ->
              \E decrypts \in BOOLEAN :
                 /\ loaded' = IF decrypts THEN "true" ELSE "false"
                 /\ pc' = IF decrypts THEN "probe" ELSE "login_to_ms"
                 /\ session_cookies' = IF decrypts THEN "file" ELSE session_cookies
                 /\ UNCHANGED halt
    /\ UNCHANGED <<env, origins, fnVars, run, args, dlVars, rsVars, cookie_file, probe, sso,
                   driver_url, current_url, last_url, now, end_time, authResult,
                   offered, settled>>

\* The probe with the URL it ended at ignored: login_to_ms() follows in any case.
auth_ProbeMutAlwaysLogin ==
    /\ Running /\ pc = "probe"
    /\ \E u \in Urls :
          /\ probe' = u
          /\ pc' = "login_to_ms"
    /\ UNCHANGED <<env, origins, fnVars, halt, run, args, dlVars, rsVars, cookie_file,
                   session_cookies, loaded, sso, driver_url, current_url, last_url,
                   now, end_time, authResult, offered, settled>>

\* resp = session.get(base_url); resp.url.startswith("https://echo360.org.uk")
auth_Probe ==
    /\ Running /\ pc = "probe"
    /\ \/ \E u \in Urls :
             /\ probe' = u
             /\ IF StartsWith(u, PlatformPrefix)
                THEN AuthReturn("true")
                ELSE pc' = "login_to_ms" /\ UNCHANGED authResult
             /\ UNCHANGED halt
       \/ /\ halt' = "exception"
          /\ UNCHANGED <<probe, pc, authResult>>
    /\ UNCHANGED <<env, origins, fnVars, run, args, dlVars, rsVars, cookie_file, session_cookies,
                   loaded, sso, driver_url, current_url, last_url, now, end_time,
                   offered, settled>>

\* res = login_to_ms(): None, an empty username, or a username and a browser.
auth_LoginToMs ==
    /\ Running /\ pc = "login_to_ms"
    /\ sso' = TRUE
    /\ \E res \in {"none", "no_username", "ok"} :
          IF res = "ok"
          THEN pc' = "navigate" /\ UNCHANGED authResult
          ELSE AuthReturn("false")
    /\ UNCHANGED <<env, origins, fnVars, halt, run, args, dlVars, rsVars, cookie_file,
                   session_cookies, loaded, probe, driver_url, current_url,
                   last_url, now, end_time, offered, settled>>

\* driver.get(base_url), the test of the page it landed on, time.sleep(2)
auth_Navigate ==
    /\ Running /\ pc = "navigate"
    /\ \E u \in Urls :
          /\ driver_url' = u
          /\ IF ~IsSubstring(LoginPagePart, u)
             THEN AuthReturn("false") /\ UNCHANGED now
             ELSE /\ now' = now + 2 * TicksPerSecond
                  /\ pc' = "submit"
                  /\ UNCHANGED authResult
    /\ UNCHANGED <<env, origins, fnVars, halt, run, args, dlVars, rsVars, cookie_file,
                   session_cookies, loaded, probe, sso, current_url, last_url,
                   end_time, offered, settled>>

\* The e-mail field and the submit button; then timeout, end_time and last_url.
auth_Submit ==
    /\ Running /\ pc = "submit"
    /\ \E found \in {"no_email", "no_button", "ok"} :
          IF found = "ok"
          THEN /\ end_time' = now + timeout * TicksPerSecond
               /\ last_url' = <<>>
               /\ pc' = "poll"
               /\ UNCHANGED authResult
          ELSE AuthReturn("false") /\ UNCHANGED <<end_time, last_url>>
    /\ UNCHANGED <<env, origins, fnVars, halt, run, args, dlVars, rsVars, cookie_file,
                   session_cookies, loaded, probe, sso, driver_url, current_url,
                   now, offered, settled>>

\* while time.time() < end_time: current_url = driver.current_url
auth_PollRead ==
    /\ Running /\ pc = "poll"
    /\ IF now < end_time
       THEN current_url' = driver_url /\ pc' = "poll_changed"
       ELSE pc' = "final" /\ UNCHANGED current_url
    /\ UNCHANGED <<env, origins, fnVars, halt, run, args, dlVars, rsVars, cookie_file,
                   session_cookies, loaded, probe, sso, driver_url, last_url, now,
                   end_time, authResult, offered, settled>>

\* The rest of the loop body: the URL-changed block (which reads
\* driver.current_url again and may `continue`), the break, time.sleep(0.2).
auth_PollStep ==
    /\ Running /\ pc = "poll_changed"
    /\ last_url' = current_url
    /\ IF /\ current_url # last_url
          /\ IsSubstring(LoginPagePart, current_url)
          /\ current_url # driver_url
       THEN pc' = "poll" /\ UNCHANGED <<now, settled>>
       ELSE IF /\ StartsWith(current_url, PlatformPrefix)
               /\ ~IsSubstring(LoginPart, current_url)
       THEN settled' = TRUE /\ pc' = "final" /\ UNCHANGED now
       ELSE now' = now + 1 /\ pc' = "poll" /\ UNCHANGED settled
    /\ UNCHANGED <<env, origins, fnVars, halt, run, args, dlVars, rsVars, cookie_file,
                   session_cookies, loaded, probe, sso, driver_url, current_url,
                   end_time, authResult, offered>>

\* The success branch with copy_cookies_to_session left out: straight to
\* save_session_cookies.
auth_FinalMutNoCopy ==
    /\ Running /\ pc = "final"
    /\ IF IsSubstring(LoginPagePart, driver_url)
       THEN AuthReturn("false")
       ELSE IF StartsWith(driver_url, PlatformPrefix)
       THEN \/ AuthReturn("false")
            \/ pc' = "save" /\ UNCHANGED authResult
       ELSE AuthReturn("false")
    /\ UNCHANGED <<env, origins, fnVars, halt, run, args, dlVars, rsVars, cookie_file,
                   session_cookies, loaded, probe, sso, driver_url, current_url,
                   last_url, now, end_time, offered, settled>>

\* After the loop: the tests of driver.current_url and retrieve_cookie, which
\* returns the browser's cookies or None.
auth_Final ==
    /\ Running /\ pc = "final"
    /\ IF IsSubstring(LoginPagePart, driver_url)
       THEN AuthReturn("false")
       ELSE IF StartsWith(driver_url, PlatformPrefix)
       THEN \/ AuthReturn("false")
            \/ pc' = "copy" /\ UNCHANGED authResult
       ELSE AuthReturn("false")
    /\ UNCHANGED <<env, origins, fnVars, halt, run, args, dlVars, rsVars, cookie_file,
                   session_cookies, loaded, probe, sso, driver_url, current_url,
                   last_url, now, end_time, offered, settled>>

\* controller.copy_cookies_to_session(echo_cookies, session)
auth_CopyCookies ==
    /\ Running /\ pc = "copy"
    /\ session_cookies' = "browser"
    /\ pc' = "save"
    /\ UNCHANGED <<env, origins, fnVars, halt, run, args, dlVars, rsVars, cookie_file, loaded,
                   probe, sso, driver_url, current_url, last_url, now, end_time,
                   authResult, offered, settled>>

\* save_session_cookies(session, "echo360.cookies"): the user declines, or the
\* file is written plain or encrypted; then return True.
auth_SaveCookies ==
    /\ Running /\ pc = "save"
    /\ offered' = TRUE
    /\ cookie_file' \in {cookie_file, "plain", "encrypted"}
    /\ AuthReturn("true")
    /\ UNCHANGED <<env, origins, fnVars, halt, run, args, dlVars, rsVars, session_cookies, loaded,
                   probe, sso, driver_url, current_url, last_url, now, end_time,
                   settled>>

\* The browser follows a redirect of the SAML flow while the loop polls it.
BrowserNavigates ==
    /\ Running /\ pc \in {"poll", "poll_changed", "final"}
    /\ \E u \in Urls \ {driver_url} : driver_url' = u
    /\ UNCHANGED <<env, origins, fnVars, pc, halt, run, args, dlVars, rsVars, cookie_file,
                   session_cookies, loaded, probe, sso, current_url, last_url, now,
                   end_time, authResult, offered, settled>>

\* Time passes while the loop runs, besides its sleeps.
Elapse ==
    /\ Running /\ pc \in {"poll", "poll_changed"}
    /\ now < end_time
    /\ now' = now + 1
    /\ UNCHANGED <<env, origins, fnVars, pc, halt, run, args, dlVars, rsVars, cookie_file,
                   session_cookies, loaded, probe, sso, driver_url, current_url,
                   last_url, end_time, authResult, offered, settled>>

----------------------------------------------------------------------------
(* perform_interactive_microsoft_login(logger), auth.py 187-267 *)

\* An operation on the browser and what it answered.
Op(name, result) == [op |-> name, result |-> result]
\* driver.current_url / driver.title read for a log line.
Read == Op("read", "ok")

\* return None / return (username, driver) / an exception leaves the function
LoginReturn(result) ==
    /\ login_result' = result
    /\ lpc' = "returned"

\* The results of a controller call: what it can return, or it raises.
Outcomes(returns) == returns \cup {"raised"}

\* controller.initialise_selenium(return_values, ready) starts the worker and
\* returns, or raises.
login_Init ==
    /\ lpc = "init"
    /\ \/ /\ wpc' = "launching"
          /\ lpc' = "credentials"
          /\ UNCHANGED login_result
       \/ /\ LoginReturn("None")
          /\ UNCHANGED wpc
    /\ UNCHANGED <<mainVars, nmVars, tkVars, lkVars, slVars, vtVars, ms_res,
                   ready,
                   return_values, username, trail>>

\* username = input("   Email: "); password = getpass.getpass("Password: ")
login_Credentials ==
    /\ lpc = "credentials"
    /\ username' \in {"", "s1234567", "s1234567@ed.ac.uk"}
    /\ lpc' = "wait"
    /\ UNCHANGED <<mainVars, nmVars, tkVars, lkVars, slVars, vtVars, ms_res,
                   wpc, ready,
                   return_values, trail, login_result>>

\* The tests of return_values and the first use of the driver, lines 213-222.
AfterWait ==
    IF "error" \in return_values \/ "driver" \notin return_values
    THEN /\ LoginReturn("None")
         /\ UNCHANGED trail
    ELSE /\ trail' = Append(trail, Read)
         /\ lpc' = "submit"
         /\ UNCHANGED login_result

\* The same without ready.wait(): the dict is read as it is at that moment.
login_WaitMutNoWait ==
    /\ lpc = "wait"
    /\ AfterWait
    /\ UNCHANGED <<mainVars, nmVars, tkVars, lkVars, slVars, vtVars, ms_res,
                   wpc, ready,
                   return_values, username>>

\* ready.wait() blocks until the event is set; then the dict is read.
login_Wait ==
    /\ lpc = "wait"
    /\ ready
    /\ AfterWait
    /\ UNCHANGED <<mainVars, nmVars, tkVars, lkVars, slVars, vtVars, ms_res,
                   wpc, ready,
                   return_values, username>>

\* The credentials step without its `return None`: the flow goes on to 2FA.
login_SubmitMutNoReturn ==
    /\ lpc = "submit"
    /\ \E result \in Outcomes({"true", "false"}) :
          /\ trail' = trail \o <<Op("submit_validate_username_password", result), Read>>
          /\ IF result = "raised" THEN LoginReturn("raised")
             ELSE lpc' = "prompt" /\ UNCHANGED login_result
    /\ UNCHANGED <<mainVars, nmVars, tkVars, lkVars, slVars, vtVars, ms_res,
                   wpc, ready,
                   return_values, username>>

\* controller.submit_validate_username_password(driver, username, password)
login_Submit ==
    /\ lpc = "submit"
    /\ \E result \in Outcomes({"true", "false"}) :
          CASE result = "raised" ->
                 /\ trail' = Append(trail, Op("submit_validate_username_password", result))
                 /\ LoginReturn("raised")
            [] result = "false" ->
                 /\ trail' = trail \o <<Op("submit_validate_username_password", result), Read>>
                 /\ LoginReturn("None")
            [] OTHER ->
                 /\ trail' = trail \o <<Op("submit_validate_username_password", result), Read>>
                 /\ lpc' = "prompt"
                 /\ UNCHANGED login_result
    /\ UNCHANGED <<mainVars, nmVars, tkVars, lkVars, slVars, vtVars, ms_res,
                   wpc, ready,
                   return_values, username>>

\* prompt_type = controller.wait_for_2fa_prompt(driver) and the branch on it
login_Prompt ==
    /\ lpc = "prompt"
    /\ \E prompt_type \in Outcomes({"none", "APPROVE_NUMBER", "SIX_DIGIT_CODE"}) :
          CASE prompt_type = "raised" ->
                 /\ trail' = Append(trail, Op("wait_for_2fa_prompt", prompt_type))
                 /\ LoginReturn("raised")
            [] prompt_type = "none" ->
                 /\ trail' = trail \o <<Op("wait_for_2fa_prompt", prompt_type), Read, Read>>
                 /\ LoginReturn("None")
            [] OTHER ->
                 /\ trail' = Append(trail, Op("wait_for_2fa_prompt", prompt_type))
                 /\ lpc' = IF prompt_type = "SIX_DIGIT_CODE" THEN "otp" ELSE "completion"
                 /\ UNCHANGED login_result
    /\ UNCHANGED <<mainVars, nmVars, tkVars, lkVars, slVars, vtVars, ms_res,
                   wpc, ready,
                   return_values, username>>

\* otp = input(...).strip(); controller.input_2fa_otp(driver, otp)
login_Otp ==
    /\ lpc = "otp"
    /\ \E result \in Outcomes({"ok"}) :
          /\ trail' = Append(trail, Op("input_2fa_otp", result))
          /\ IF result = "raised" THEN LoginReturn("raised")
             ELSE lpc' = "completion" /\ UNCHANGED login_result
    /\ UNCHANGED <<mainVars, nmVars, tkVars, lkVars, slVars, vtVars, ms_res,
                   wpc, ready,
                   return_values, username>>

\* controller.wait_for_2fa_completion(driver)
login_Completion ==
    /\ lpc = "completion"
    /\ \E result \in Outcomes({"true", "false"}) :
          CASE result = "raised" ->
                 /\ trail' = Append(trail, Op("wait_for_2fa_completion", result))
                 /\ LoginReturn("raised")
            [] result = "false" ->
                 /\ trail' = trail \o <<Op("wait_for_2fa_completion", result), Read>>
                 /\ LoginReturn("None")
            [] OTHER ->
                 /\ trail' = trail \o <<Op("wait_for_2fa_completion", result), Read>>
                 /\ lpc' = "name"
                 /\ UNCHANGED login_result
    /\ UNCHANGED <<mainVars, nmVars, tkVars, lkVars, slVars, vtVars, ms_res,
                   wpc, ready,
                   return_values, username>>

\* name = controller.retrieve_logged_in_name(driver); return (username, driver)
login_Name ==
    /\ lpc = "name"
    /\ \E result \in Outcomes({"ok"}) :
          /\ trail' = Append(trail, Op("retrieve_logged_in_name", result))
          /\ LoginReturn(IF result = "raised" THEN "raised" ELSE "pair")
    /\ UNCHANGED <<mainVars, nmVars, tkVars, lkVars, slVars, vtVars, ms_res,
                   wpc, ready,
                   return_values, username>>

\* login_to_ms(): None when the function returned None or raised, else the
\* pair it returned. auth.py 172-185
login_to_ms ==
    /\ lpc = "returned"
    /\ ms_res' = IF login_result = "pair" THEN "pair" ELSE "None"
    /\ lpc' = "done"
    /\ UNCHANGED <<mainVars, nmVars, tkVars, lkVars, slVars, vtVars, wpc, ready,
                   return_values, username, trail, login_result>>

\* The worker started by initialise_selenium launches the browser and stores
\* the driver, an error, or nothing in the dict.
worker_Launch ==
    /\ wpc = "launching"
    /\ return_values' \in {{"driver"}, {"error"}, {}}
    /\ wpc' = "stored"
    /\ UNCHANGED <<mainVars, nmVars, tkVars, lkVars, slVars, vtVars, ms_res,
                   lpc, ready,
                   username, trail, login_result>>

\* The worker signals readiness: ready.set()
worker_Set ==
    /\ wpc = "stored"
    /\ ready' = TRUE
    /\ wpc' = "done"
    /\ UNCHANGED <<mainVars, nmVars, tkVars, lkVars, slVars, vtVars, ms_res,
                   lpc,
                   return_values, username, trail, login_result>>

----------------------------------------------------------------------------
(* The environment of a run *)

DownloadPcs == {"makedirs", "isfile", "open", "get", "write_content",
                "iter_content", "rename"}

\* The process is terminated (there is no other cancellation).
Interrupt ==
    /\ Running /\ pc # "exit"
    /\ halt' = "killed"
    /\ UNCHANGED <<pc, run, args, dlVars>>
    /\ UNCHANGED <<env, origins, fnVars, rsVars, auVars>>

\* The program is invoked again with the same arguments and the same selection,
\* on the file system the previous invocation left.
RerunSameSelection ==
    /\ ~Running \/ pc = "exit"
    /\ run < MaxRuns
    /\ run' = run + 1
    /\ halt' = "no"
    /\ pc' = "for_video"
    /\ vidx' = 1
    /\ resp' = NoResp
    /\ call' = NoCall
    /\ UNCHANGED <<args, video_target_collection, dirs, final, part, history,
                   served, calls, histBefore>>
    /\ UNCHANGED <<env, origins, fnVars, rsVars, auVars>>

\* The variables of main()'s link loop, before it starts.
RsIdle ==
    /\ links = <<>> /\ lidx = 1
    /\ r = NoSyllabus /\ gets = 0 /\ auths = 0 /\ authRes = "none"
    /\ eidx = 1 /\ available_videos = <<>> /\ lecture_session = Lesson /\ response = NoMedia
    /\ authFailed = {}

\* interactive_video_selection before its first prompt.
SlIdle ==
    /\ user_input = <<>> /\ selection = <<>> /\ returned = FALSE
    /\ prompts = 0 /\ dropped = <<>>

\* encrypt and decrypt before they are called.
VtIdle ==
    /\ pickled = <<>> /\ pw_save = <<>> /\ pw_load = <<>>
    /\ encrypted_cookies = <<>> /\ decrypted_data = <<>>

\* perform_interactive_microsoft_login before it is called.
LgIdle ==
    /\ lpc = "idle" /\ wpc = "none" /\ ready = FALSE /\ return_values = {}
    /\ username = "" /\ trail = <<>> /\ login_result = "none" /\ ms_res = "none"

\* No function has been applied on its own.
FnIdle ==
    /\ lessons = <<>> /\ collected = <<>>
    /\ files = <<>> /\ selected = <<>>
    /\ course_link = <<>> /\ syllabus_link = <<"uncalled">> /\ requested = <<>>
    /\ SlIdle /\ VtIdle /\ LgIdle

\* The program before main() is entered, for the functions applied on their own.
MainIdle ==
    /\ env = [entries |-> 0, chunks |-> 0]
    /\ pc = "idle"
    /\ halt = "no"
    /\ run = 1
    /\ args = [history_file |-> FALSE, print_source |-> FALSE,
               hide_progress_bar |-> FALSE, all |-> FALSE]

\* The variables of auth_echo360(), before it is called.
AuIdle ==
    /\ cookie_file = "missing" /\ session_cookies = "none" /\ loaded = "none"
    /\ probe = <<>> /\ sso = FALSE
    /\ driver_url = <<>> /\ current_url = <<>> /\ last_url = <<>>
    /\ now = 0 /\ end_time = 0 /\ authResult = "none"
    /\ offered = FALSE /\ settled = FALSE

\* The file system and the download loop, before the first download.
DlIdle ==
    /\ video_target_collection = <<>>
    /\ vidx = 1
    /\ dirs = {}
    /\ final = [f \in FileNames |-> NoFile]
    /\ part = [f \in FileNames |-> NoFile]
    /\ history = NoHistory
    /\ resp = NoResp
    /\ served = [f \in FileNames |-> <<>>]
    /\ call = NoCall
    /\ calls = <<>>
    /\ histBefore = NoHistory
    /\ origins = <<>>

InitDownload ==
    /\ env = [entries |-> 0, chunks |-> MaxChunks]
    /\ FnIdle
    /\ RsIdle /\ AuIdle
    /\ pc = "for_video"
    /\ halt = "no"
    /\ run = 1
    /\ args \in {a \in Args : ~a.all}
    /\ video_target_collection \in SeqUpTo(SelectableVideos, MaxTargets) \ {<<>>}
    /\ vidx = 1
    /\ dirs = {}
    /\ final = [f \in FileNames |-> NoFile]
    /\ part = [f \in FileNames |-> NoFile]
    /\ history = NoHistory
    /\ resp = NoResp
    /\ served = [f \in FileNames |-> <<>>]
    /\ call = NoCall
    /\ calls = <<>>
    /\ histBefore = NoHistory
    /\ origins = <<>>

\* The resolution part of main(): from the first link to line 273.
InitResolve ==
    /\ env = [entries |-> MaxEntries, chunks |-> MaxChunks]
    /\ FnIdle
    /\ pc = "for_link"
    /\ halt = "no"
    /\ run = 1
    /\ args \in {a \in Args : a.all /\ ~a.history_file /\ ~a.print_source
                                /\ ~a.hide_progress_bar}
    /\ links \in SeqUpTo(LinkKinds, MaxLinks) \ {<<>>}
    /\ lidx = 1
    /\ r = NoSyllabus /\ gets = 0 /\ auths = 0 /\ authRes = "none"
    /\ eidx = 1 /\ available_videos = <<>> /\ lecture_session = Lesson /\ response = NoMedia
    /\ authFailed = {}
    /\ DlIdle /\ AuIdle

NextResolve ==
    \/ main_ForLink
    \/ scrape_videos_Get
    \/ scrape_videos_Auth
    \/ scrape_videos_Retry
    \/ scrape_videos_Json
    \/ scrape_videos_ForLecture
    \/ scrape_videos_for_lecture
    \/ main_Found
    \/ Interrupt

\* main() up to line 273, for every list of at most MaxLinks links.
SpecResolve == InitResolve /\ [][NextResolve]_vars

\* The whole of main(), on servers that answer with syllabuses of at most
\* FullEntries entries and bodies of at most FullChunks chunks.
Init ==
    /\ env = [entries |-> FullEntries, chunks |-> FullChunks]
    /\ FnIdle
    /\ pc = "for_link"
    /\ halt = "no"
    /\ run = 1
    /\ args \in Args
    /\ links \in SeqUpTo(LinkKinds, MaxLinks) \ {<<>>}
    /\ lidx = 1
    /\ r = NoSyllabus /\ gets = 0 /\ auths = 0 /\ authRes = "none"
    /\ eidx = 1 /\ available_videos = <<>> /\ lecture_session = Lesson /\ response = NoMedia
    /\ authFailed = {}
    /\ DlIdle /\ AuIdle

Next ==
    \/ main_ForLink
    \/ scrape_videos_Get
    \/ scrape_videos_Auth
    \/ scrape_videos_Retry
    \/ scrape_videos_Json
    \/ scrape_videos_ForLecture
    \/ scrape_videos_for_lecture
    \/ main_Found
    \/ main_ForVideo
    \/ main_History
    \/ download_MakeDirs
    \/ download_IsFile
    \/ download_Open
    \/ download_Get
    \/ download_WriteContent
    \/ download_IterContent
    \/ download_Rename
    \/ Interrupt

Spec == Init /\ [][Next]_vars

\* One call of auth_echo360(), with any echo360.cookies on disk.
InitAuth ==
    /\ env = [entries |-> 0, chunks |-> 0]
    /\ FnIdle
    /\ pc = "auth"
    /\ halt = "no"
    /\ run = 1
    /\ args = [history_file |-> FALSE, print_source |-> FALSE,
               hide_progress_bar |-> FALSE, all |-> FALSE]
    /\ RsIdle /\ DlIdle
    /\ cookie_file \in CookieFiles
    /\ session_cookies = "none" /\ loaded = "none"
    /\ probe = <<>> /\ sso = FALSE
    /\ driver_url = <<>> /\ current_url = <<>> /\ last_url = <<>>
    /\ now = 0 /\ end_time = 0 /\ authResult = "none"
    /\ offered = FALSE /\ settled = FALSE

NextAuth ==
    \/ auth_LoadCookies
    \/ auth_Probe
    \/ auth_LoginToMs
    \/ auth_Navigate
    \/ auth_Submit
    \/ auth_PollRead
    \/ auth_PollStep
    \/ auth_Final
    \/ auth_CopyCookies
    \/ auth_SaveCookies
    \/ BrowserNavigates
    \/ Elapse

SpecAuth == InitAuth /\ [][NextAuth]_vars

\* scrape_videos_for_lecture building the targets of up to MaxLessons responses.
InitNaming ==
    /\ MainIdle /\ RsIdle /\ DlIdle /\ AuIdle
    /\ FnIdle

NextNaming == scrape_videos_for_lecture_Targets

SpecNaming == InitNaming /\ [][NextNaming]_vars

\* The sort and the selection on every track list of at most MaxFiles files.
InitTrack ==
    /\ MainIdle /\ RsIdle /\ DlIdle /\ AuIdle
    /\ lessons = <<>> /\ collected = <<>>
    /\ files \in SeqUpTo(TrackFiles, MaxFiles) \ {<<>>}
    /\ selected = <<>>
    /\ course_link = <<>> /\ syllabus_link = <<"uncalled">> /\ requested = <<>>
    /\ SlIdle /\ VtIdle /\ LgIdle

NextTrack == scrape_videos_for_lecture_Select

SpecTrack == InitTrack /\ [][NextTrack]_vars

\* create_syllabus_link and the head of scrape_videos on every link of LinkStrings.
InitLink ==
    /\ MainIdle /\ RsIdle /\ DlIdle /\ AuIdle
    /\ lessons = <<>> /\ collected = <<>>
    /\ files = <<>> /\ selected = <<>>
    /\ course_link \in LinkStrings
    /\ syllabus_link = <<"uncalled">> /\ requested = <<>>
    /\ SlIdle /\ VtIdle /\ LgIdle

NextLink == scrape_videos_Link

SpecLink == InitLink /\ [][NextLink]_vars

\* One call of interactive_video_selection, reading up to MaxPrompts lines.
InitSelection ==
    /\ MainIdle /\ RsIdle /\ DlIdle /\ AuIdle
    /\ FnIdle

NextSelection == interactive_video_selection_Line

SpecSelection == InitSelection /\ [][NextSelection]_vars

\* One call of perform_interactive_microsoft_login, with its worker.
InitLogin ==
    /\ MainIdle /\ RsIdle /\ DlIdle /\ AuIdle
    /\ lessons = <<>> /\ collected = <<>>
    /\ files = <<>> /\ selected = <<>>
    /\ course_link = <<>> /\ syllabus_link = <<"uncalled">> /\ requested = <<>>
    /\ SlIdle /\ VtIdle
    /\ lpc = "init" /\ wpc = "none" /\ ready = FALSE /\ return_values = {}
    /\ username = "" /\ trail = <<>> /\ login_result = "none" /\ ms_res = "none"

NextLogin ==
    \/ login_Init
    \/ login_Credentials
    \/ login_Wait
    \/ login_Submit
    \/ login_Prompt
    \/ login_Otp
    \/ login_Completion
    \/ login_Name
    \/ login_to_ms
    \/ worker_Launch
    \/ worker_Set

SpecLogin == InitLogin /\ [][NextLogin]_vars

\* encrypt under one password, then decrypt under the same or another.
InitVault ==
    /\ MainIdle /\ RsIdle /\ DlIdle /\ AuIdle
    /\ lessons = <<>> /\ collected = <<>>
    /\ files = <<>> /\ selected = <<>>
    /\ course_link = <<>> /\ syllabus_link = <<"uncalled">> /\ requested = <<>>
    /\ SlIdle
    /\ LgIdle
    /\ pickled \in Payloads
    /\ pw_save \in Passwords /\ pw_load \in Passwords
    /\ encrypted_cookies = <<>> /\ decrypted_data = <<>>

NextVault == vault_Encrypt \/ vault_Decrypt

SpecVault == InitVault /\ [][NextVault]_vars

NextDownload ==
    \/ main_ForVideo
    \/ main_History
    \/ download_MakeDirs
    \/ download_IsFile
    \/ download_Open
    \/ download_Get
    \/ download_WriteContent
    \/ download_IterContent
    \/ download_Rename
    \/ Interrupt
    \/ RerunSameSelection

\* main() from line 275 on, for every selection of at most MaxTargets videos.
SpecDownload == InitDownload /\ [][NextDownload]_vars

----------------------------------------------------------------------------
(* Claims about download() and the history file, under SpecDownload *)

BeforeRenamePcs == {"open", "get", "write_content", "iter_content", "rename"}

\* C1: a final file holds exactly the whole body of the response fetched for it,
\* and while a download() call is anywhere between opening the .part file and
\* the rename (also when the process was stopped there), the final file of its
\* target does not exist.
C1_FinalOnlyAfterRename ==
    /\ \A f \in FileNames : final[f].exists => final[f].data = served[f]
    /\ pc \in BeforeRenamePcs => ~final[file_name].exists

\* C1 witness: the process was killed in the middle of a stream, leaving a
\* non-empty .part file, while another target's final file is published.
C1_Witness ==
    /\ halt = "killed" /\ pc = "iter_content"
    /\ resp.rest # <<>> /\ part[file_name].data # <<>>
    /\ \E f \in FileNames : final[f].exists /\ final[f].data # <<>>

\* C2: a download() call that found file_name existing issues no fetch, does not
\* touch the .part file and leaves the file as it was; of the returned calls for
\* one file_name the first fetched and every later one did not.
C2_ExistingFileSkipped ==
    /\ (call.active /\ call.hadFile) =>
          /\ ~call.fetched /\ ~call.touched
          /\ final[call.path] = call.before
    /\ \A j \in 1..Len(calls) :
          calls[j].fetched = (\A i \in 1..(j - 1) : calls[i].path # calls[j].path)

\* C2 witness: two returned calls for the same file_name, the first fetched, the
\* second skipped.
C2_Witness ==
    \E i, j \in 1..Len(calls) :
        /\ i < j /\ calls[i].path = calls[j].path
        /\ calls[i].fetched /\ ~calls[j].fetched
        /\ final[calls[j].path].data # <<>>

\* C3: with a history file configured, download() is entered for a video only
\* after the history file was read, the video's source URL was not a line of it,
\* and the URL was appended to it as a line.
C3_HistoryConsulted ==
    (args.history_file /\ pc \in DownloadPcs) =>
        /\ video.video_src_link \notin Range(Lines(histBefore.text))
        /\ history.exists
        /\ history.text = histBefore.text \o video.video_src_link \o <<NL>>

\* C3 witness: in a second run the first video is skipped because its URL is a
\* line of the history file, and the second, unrecorded one is being fetched.
C3_Witness ==
    /\ args.history_file /\ run = 2 /\ pc = "get" /\ vidx = 2
    /\ calls = <<>>
    /\ video_target_collection[1].video_src_link \in Range(Lines(histBefore.text))
    /\ video.video_src_link \notin Range(Lines(histBefore.text))

----------------------------------------------------------------------------
(* Claims about scrape_videos(), under SpecResolve *)

\* C4: when the syllabus response is not JSON, or is JSON whose status is
\* missing or not "ok", the validation step of scrape_videos raises nothing.
C4_BadSyllabusNeverRaises ==
    (pc = "json" /\ (~r.json \/ r.status # "ok")) => halt # "exception"

\* C5: an entry that is not of type SyllabusLessonType, or lacks the lesson
\* object, the nested lesson or the media list, is skipped without raising.
C5_IneligibleEntryNeverRaises ==
    (pc = "for_lecture" /\ EntryInvalid(lecture_session)) => halt # "exception"

\* C6: a per-lesson media response that deviates on a required field makes
\* scrape_videos_for_lecture raise nothing.
C6_DeviatingMediaNeverRaises ==
    ~(pc = "lecture" /\ halt = "exception" /\ MediaRaises(response))

\* C8: per link at most one auth_echo360 call and at most two syllabus GETs are
\* made; auth_echo360 is called only on a first response that is the login page,
\* the second GET only after auth_echo360 returned True; and when the second
\* response is the login page again, scrape_videos raises nothing and returns [].
C8_RetriedOnce ==
    /\ gets <= 2 /\ auths <= 1
    /\ (auths = 1 /\ gets = 1) => r.login
    /\ gets = 2 => (auths = 1 /\ authRes = "true")
    /\ (gets = 2 /\ r.login /\ pc = "json") => halt # "exception"
    /\ (gets = 2 /\ r.login) => pc \notin {"login", "for_lecture", "lecture"}
    /\ (gets = 2 /\ r.login /\ pc = "found") => available_videos = <<>>

\* C8 witness: the second GET was answered with the login page again and the
\* link ended with no videos, after one auth_echo360 call.
C8_Witness ==
    /\ pc = "found" /\ gets = 2 /\ auths = 1 /\ r.login
    /\ available_videos = <<>> /\ halt = "no"

----------------------------------------------------------------------------
(* Claims about main() as a whole, under Spec *)

\* C7: once auth_echo360 returned False at a link, scrape_videos returns [] for
\* that link and raises nothing, and main() goes on to the next link; when
\* main() has returned (in download mode without a history file), download() was
\* called and has returned for every selected video, in order.
C7_AuthFailureSkipsCourse ==
    /\ \A i \in authFailed :
          \/ lidx > i
          \/ /\ lidx = i /\ pc = "found"
             /\ available_videos = <<>> /\ halt # "exception"
    /\ (pc = "exit" /\ ~args.print_source /\ ~args.history_file) =>
          /\ Len(calls) = Len(video_target_collection)
          /\ \A k \in 1..Len(calls) :
                calls[k].path = video_target_collection[k].filename

\* C7 witness: main() returned; auth_echo360 failed at the first link, and a
\* video of the second link was fetched and published.
C7_Witness ==
    /\ pc = "exit" /\ authFailed = {1} /\ Len(links) = 2
    /\ calls # <<>> /\ calls[1].fetched
    /\ final[calls[1].path].exists

----------------------------------------------------------------------------
(* Claims about auth_echo360(), under SpecAuth *)

\* C9: when load_session_cookies returned True and the probe ended on the
\* platform's domain, auth_echo360 has returned True without calling
\* login_to_ms() (no browser, no prompt for credentials); when the probe ended
\* elsewhere, login_to_ms() is the next thing done.
C9_ProbeDecides ==
    /\ (loaded = "true" /\ probe # <<>> /\ StartsWith(probe, PlatformPrefix)) =>
          /\ pc = "returned" /\ authResult = "true" /\ halt = "no"
          /\ ~sso /\ driver_url = <<>>
    /\ (loaded = "true" /\ probe # <<>> /\ ~StartsWith(probe, PlatformPrefix)) =>
          (sso \/ pc = "login_to_ms")

\* C9 witness: cookies were loaded from the file, the probe ended on the
\* platform, and auth_echo360 returned True with no login_to_ms() call.
C9_Witness ==
    /\ loaded = "true" /\ session_cookies = "file" /\ probe = UrlHome
    /\ pc = "returned" /\ authResult = "true" /\ ~sso

\* C10: after login_to_ms(), auth_echo360 returns True only if the polling loop
\* saw, before end_time, a URL on the platform's domain outside the login path
\* (it left through its break); when the loop ran out of time it returns False.
C10_TrueOnlyIfSettled ==
    (pc = "returned" /\ sso /\ authResult = "true") => settled

\* C11: save_session_cookies is called only after the browser's cookies were
\* copied into the session; when auth_echo360 returns True after login_to_ms()
\* the cookies were copied and saving was offered; when it returns False after
\* login_to_ms() no cookie was copied and saving was not offered.
C11_CopyThenOffer ==
    /\ offered => session_cookies = "browser"
    /\ pc = "save" => session_cookies = "browser"
    /\ (pc = "returned" /\ sso /\ authResult = "true") =>
          (session_cookies = "browser" /\ offered)
    /\ (pc = "returned" /\ sso /\ authResult = "false") =>
          (session_cookies # "browser" /\ ~offered)

\* C11 witness: auth_echo360 returned True after login_to_ms(), with the
\* browser's cookies in the session and the cookie file written.
C11_Witness ==
    /\ pc = "returned" /\ sso /\ authResult = "true"
    /\ session_cookies = "browser" /\ offered /\ cookie_file = "encrypted"

----------------------------------------------------------------------------
(* Claims about the targets of a lesson, under SpecNaming *)

\* The collected targets, by response and position.
Collected == {<<l, k>> \in (1..Len(collected)) \X (1..2) : k <= Len(collected[l])}

\* C12: two collected targets of different lectures (different mediaId), or of
\* the two tracks of one lecture, have different filenames.
C12_FilenameInjective ==
    \A a, b \in Collected :
       (\/ lessons[a[1]].mediaId # lessons[b[1]].mediaId
        \/ (a[1] = b[1] /\ a[2] # b[2])) =>
          collected[a[1]][a[2]].filename # collected[b[1]][b[2]].filename

\* The s3Urls of a track list.
UrlsOf(track) == {track[i].s3Url : i \in 1..Len(track)}

\* The number of non-empty tracks of a response.
NonEmptyTracks(m) ==
    (IF m.primaryFiles # <<>> THEN 1 ELSE 0)
    + (IF m.secondaryFiles # <<>> THEN 1 ELSE 0)

\* C14: for every processed response, videos_to_return holds one target per
\* non-empty track, so two when both tracks have files, and the primary
\* track's target comes before the secondary's.
C14_OneTargetPerTrack ==
    \A l \in 1..Len(lessons) :
       LET m == lessons[l]
           t == collected[l]
       IN  /\ Len(t) = NonEmptyTracks(m)
           /\ m.primaryFiles # <<>> =>
                 t[1].video_src_link \in UrlsOf(m.primaryFiles)
           /\ m.secondaryFiles # <<>> =>
                 t[Len(t)].video_src_link \in UrlsOf(m.secondaryFiles)

\* C14 witness: a response with both tracks gave two targets, the primary's
\* first, and a response with no track gave none.
C14_Witness ==
    /\ Len(lessons) = 2
    /\ Len(collected[1]) = 2
    /\ collected[1][1].video_src_link \in UrlsOf(lessons[1].primaryFiles)
    /\ collected[1][2].video_src_link \in UrlsOf(lessons[1].secondaryFiles)
    /\ lessons[2].primaryFiles = <<>> /\ lessons[2].secondaryFiles = <<>>
    /\ collected[2] = <<>>

\* The last n symbols of a string, and the string without them.
Suffix(t, n) == SubSeq(t, Len(t) - n + 1, Len(t))
Without(t, n) == SubSeq(t, 1, Len(t) - n)

\* C15: with both tracks non-empty, title and episode_name of the two targets
\* end in " [primary]" and " [secondary]" and the filenames in "-primary.mp4"
\* and "-secondary.mp4", being equal before that; with one non-empty track the
\* target's title is the lecture title and no field names a track.
C15_SuffixIffBothTracks ==
    \A l \in 1..Len(lessons) :
       LET m == lessons[l]
           t == collected[l]
           lecture_title == IF m.name = <<"absent">> THEN <<"Lecture">> ELSE m.name
           labels == {"primary", "secondary"}
       IN  /\ Len(t) = 2 =>
                /\ Suffix(t[1].title, 3) = <<" [", "primary", "]">>
                /\ Suffix(t[2].title, 3) = <<" [", "secondary", "]">>
                /\ Without(t[1].title, 3) = lecture_title
                /\ Without(t[2].title, 3) = lecture_title
                /\ Suffix(t[1].episode_name, 3) = <<" [", "primary", "]">>
                /\ Suffix(t[2].episode_name, 3) = <<" [", "secondary", "]">>
                /\ Without(t[1].episode_name, 3) = Without(t[2].episode_name, 3)
                /\ Suffix(t[1].filename, 3) = <<"-", "primary", ".mp4">>
                /\ Suffix(t[2].filename, 3) = <<"-", "secondary", ".mp4">>
                /\ Without(t[1].filename, 3) = Without(t[2].filename, 3)
           /\ Len(t) = 1 =>
                /\ t[1].title = lecture_title
                /\ Range(t[1].title) \cap labels = {}
                /\ Range(t[1].episode_name) \cap labels = {}
                /\ Range(t[1].filename) \cap labels = {}

\* C15 witness: one response with both tracks and one with the secondary
\* track only, whose single target carries no label.
C15_Witness ==
    /\ Len(lessons) = 2
    /\ Len(collected[1]) = 2
    /\ "primary" \in Range(collected[1][1].filename)
    /\ "secondary" \in Range(collected[1][2].title)
    /\ lessons[2].primaryFiles = <<>> /\ Len(collected[2]) = 1
    /\ "secondary" \notin Range(collected[2][1].filename)

\* The characters ? < > : * | " ^ / \
IllegalCharacters == {"?", "<", ">", ":", "*", "|", "\"", "^", "/", "\\"}

\* The positions of the path separator in a filename.
Separators(name) == {i \in 1..Len(name) : name[i] = os_sep}

\* C17: every filename is the course title without its illegal characters, one
\* path separator, and a file name without illegal characters; so it holds
\* one separator whether or not the course title has a slash.
C17_TwoCleanComponents ==
    \A a \in Collected :
       LET name == collected[a[1]][a[2]].filename
           course == SelectSeq(lessons[a[1]].sectionNumber,
                               LAMBDA c : c \notin IllegalCharacters)
       IN  /\ Cardinality(Separators(name)) = 1
           /\ \A i \in Separators(name) :
                 /\ SubSeq(name, 1, i - 1) = course
                 /\ i < Len(name)
           /\ \A i \in 1..Len(name) :
                 name[i] \in IllegalCharacters => i \in Separators(name)

\* C17 witness: a target of a course title with a slash and of a mediaId with
\* an illegal character, neither of which is in the filename.
C17_Witness ==
    \E a \in Collected :
       /\ "/" \in Range(lessons[a[1]].sectionNumber)
       /\ "*" \in Range(lessons[a[1]].mediaId)
       /\ collected[a[1]][a[2]].filename =
             <<"CS", "101", "/", "2024", "-", "01", "-", "15", "-", "9", "f", ".mp4">>

----------------------------------------------------------------------------
(* Claims about the selection within a track, under SpecTrack *)

\* C13: the entry selected from a non-empty track list is an entry of the list
\* of the largest height, and of the largest size among those of that height,
\* whatever the order of the list.
C13_LargestSelected ==
    selected # <<>> =>
       /\ selected[1] \in Range(files)
       /\ selected[1] = Best(files)
       /\ \A f \in Range(files) :
             /\ f.height <= selected[1].height
             /\ f.height = selected[1].height => f.size <= selected[1].size

\* C13 witness: the selected entry arrived last, after a lower entry and an
\* entry of the same height and smaller size.
C13_Witness ==
    /\ selected # <<>> /\ Len(files) = 3 /\ selected[1] = files[3]
    /\ files[1].height < files[3].height
    /\ files[2].height = files[3].height /\ files[2].size < files[3].size

----------------------------------------------------------------------------
(* Claims about create_syllabus_link, under SpecLink *)

\* The strings that are, as a whole, https?://echo360.org.uk/section/<id>(/...)?
\* and their <id>.
IsCourseUrl(url, id) ==
    /\ id # <<>> /\ Range(id) \subseteq IdSymbols
    /\ \E scheme \in {"http", "https"} :
       \E rest \in {SubSeq(url, i, Len(url)) : i \in 1..(Len(url) + 1)} :
          /\ rest = <<>> \/ Head(rest) = "/"
          /\ url = <<scheme, ":", "/", "/", "echo360.org.uk", "/", "section", "/">>
                    \o id \o rest

CourseIds == {<<"abc">>, <<"abc", "-", "12">>}

\* C16: for a link that is a course URL with id <id>, create_syllabus_link
\* returns https://echo360.org.uk/section/<id>/syllabus; for any other link it
\* returns None and scrape_videos sends no request.
C16_SyllabusLinkExact ==
    syllabus_link # <<"uncalled">> =>
       /\ \A id \in CourseIds :
             IsCourseUrl(course_link, id) =>
                syllabus_link = <<"https", ":", "/", "/", "echo360.org.uk", "/",
                                  "section", "/">> \o id \o <<"/", "syllabus">>
       /\ (\A id \in CourseIds : ~IsCourseUrl(course_link, id)) =>
             (syllabus_link = <<>> /\ requested = <<>>)

----------------------------------------------------------------------------
(* Claims about interactive_video_selection, under SpecSelection *)

\* The items that are a literal integer or a range A-B of literal integers,
\* and the indices such an item stands for.
IsInteger(item) == Len(item) = 1 /\ item[1] \in DOMAIN Numerals
IsRange(item) ==
    /\ Len(item) = 3 /\ item[2] = "-"
    /\ item[1] \in DOMAIN Numerals /\ item[3] \in DOMAIN Numerals
Parsable(item) == IsInteger(item) \/ IsRange(item)
IndicesOf(item) ==
    IF IsInteger(item) THEN {Numerals[item[1]]}
    ELSE Numerals[item[1]]..Numerals[item[3]]
Ascending(list) == \A i, j \in 1..Len(list) : i < j => list[i] < list[j]

\* C18: after a line whose items are all integers or ranges (the empty line
\* included), the function has returned the indices the items stand for, each
\* once, in ascending order.
C18_UnionSortedUnique ==
    (prompts > 0 /\ \A i \in 1..Len(user_input) : Parsable(user_input[i])) =>
       /\ returned
       /\ Range(selection) = UNION {IndicesOf(user_input[i]) : i \in 1..Len(user_input)}
       /\ Ascending(selection)

\* C18 witness: the line "1-2 0" was read and <<0, 1, 2>> returned.
C18_Witness ==
    /\ returned /\ user_input = <<(<<"1", "-", "2">>), (<<"0">>)>>
    /\ selection = <<0, 1, 2>>

\* C19: after a line with an item that is neither an integer nor a range the
\* function has not returned (it prompts again); when it has returned, every
\* item of the last line parsed and the selection holds indices of that line
\* only.
C19_BadLineRepeats ==
    /\ (prompts > 0 /\ \E i \in 1..Len(user_input) : ~Parsable(user_input[i])) =>
          (~returned /\ halt = "no")
    /\ returned =>
          /\ \A i \in 1..Len(user_input) : Parsable(user_input[i])
          /\ Range(selection) \subseteq
                UNION {IndicesOf(user_input[i]) : i \in 1..Len(user_input)}

\* C19 witness: a line "3 x" had put 3 into selection when it was given up,
\* and the function returned <<0>> after the next line.
C19_Witness ==
    /\ returned /\ prompts = 2 /\ dropped = <<3>> /\ selection = <<0>>

----------------------------------------------------------------------------
(* Claims about encrypt and decrypt, under SpecVault *)

\* C20: decrypt under the password of encrypt returns the payload; decrypt
\* under any other password raises.
C20_RoundTripOrFail ==
    decrypted_data # <<>> =>
       /\ pw_load = pw_save =>
             (decrypted_data[1].raised = "none" /\ decrypted_data[1].data = pickled)
       /\ pw_load # pw_save => decrypted_data[1].raised # "none"

----------------------------------------------------------------------------
(* Claims about load_session_cookies, under SpecAuth *)

\* C21: load_session_cookies never raises: whatever echo360.cookies holds, it
\* returns, and when it returns False no cookie of the file is in the session.
C21_LoadNeverRaises ==
    /\ ~(pc = "auth" /\ halt = "exception")
    /\ loaded = "false" => session_cookies # "file"

----------------------------------------------------------------------------
(* Claims about errors and order in the download loop, under SpecDownload *)

\* C22: an OSError raised by os.makedirs for one video ends the work on that
\* video only: the invocation has not ended while videos remain after it.
C22_MakedirsErrorSkipsOneTarget ==
    (halt = "exception" /\ pc = "makedirs") => vidx = Len(video_target_collection)

----------------------------------------------------------------------------
(* Claims about perform_interactive_microsoft_login, under SpecLogin *)

\* The controller calls issued so far, without the reads made for log lines.
IsStep(t) == t.op # "read"
Steps == SelectSeq(trail, IsStep)

\* A controller call that reports invalid credentials, an unrecognized page or
\* a 2FA timeout.
Failing(t) ==
    \/ t.op = "submit_validate_username_password" /\ t.result = "false"
    \/ t.op = "wait_for_2fa_prompt" /\ t.result = "none"
    \/ t.op = "wait_for_2fa_completion" /\ t.result = "false"

\* C23: (username, driver) is returned only after the credentials were
\* accepted, then a 2FA prompt was seen, then the 2FA completion wait succeeded;
\* after invalid credentials, an unrecognized page or a 2FA timeout the function
\* has returned None and issued no further controller call.
C23_PairOnlyAfterAllSteps ==
    /\ login_result = "pair" =>
          \E i, j, k \in 1..Len(Steps) :
             /\ i < j /\ j < k
             /\ Steps[i] = Op("submit_validate_username_password", "true")
             /\ Steps[j].op = "wait_for_2fa_prompt"
             /\ Steps[j].result \in {"APPROVE_NUMBER", "SIX_DIGIT_CODE"}
             /\ Steps[k] = Op("wait_for_2fa_completion", "true")
    /\ \A i \in 1..Len(Steps) :
          Failing(Steps[i]) =>
             (i = Len(Steps) /\ lpc \in {"returned", "done"} /\ login_result = "None")

\* C23 witness: the function returned the pair after a six-digit code.
C23_Witness ==
    /\ login_result = "pair"
    /\ \E i \in 1..Len(Steps) : Steps[i] = Op("wait_for_2fa_prompt", "SIX_DIGIT_CODE")

\* C25: no operation is issued on the browser before the worker has set the
\* event; when the worker stored an error or no driver, the function returns
\* None having issued no operation on the browser, and login_to_ms returns None.
C25_NothingBeforeReady ==
    /\ trail # <<>> => ready
    /\ (lpc \in {"returned", "done"}
        /\ ("error" \in return_values \/ "driver" \notin return_values)) =>
          (trail = <<>> /\ login_result = "None" /\ halt = "no")
    /\ (lpc = "done"
        /\ ("error" \in return_values \/ "driver" \notin return_values)) =>
          ms_res = "None"

\* C25 witness: the worker stored an error and set the event while the caller
\* was waiting, and the attempt ended without an operation on the browser.
C25_Witness ==
    /\ ready /\ "error" \in return_values
    /\ lpc = "done" /\ ms_res = "None" /\ trail = <<>>

----------------------------------------------------------------------------
(* Claims about the order of the downloads, under Spec *)

\* <<link, index>> pairs in the order of the links and then of the indices.
Before(a, b) == a[1] < b[1] \/ (a[1] = b[1] /\ a[2] < b[2])

\* The download() calls that returned are calls for earlier videos of the
\* collection, in the order of the collection.
InCollectionOrder ==
    \E f \in [1..Len(calls) -> 1..(vidx - 1)] :
       /\ \A k \in 1..Len(calls) : calls[k].path = video_target_collection[f[k]].filename
       /\ \A k \in 1..(Len(calls) - 1) : f[k] < f[k + 1]

\* C24: the collection is in the order of the links and, for one link, in
\* ascending order of the selected indices; download() is called for one video
\* at a time, in the order of the collection: the call in progress is the one
\* for the current video and every earlier call has returned.
C24_OneAtATimeInOrder ==
    /\ Len(origins) = Len(video_target_collection)
    /\ \A k \in 1..(Len(origins) - 1) : Before(origins[k], origins[k + 1])
    /\ pc \in DownloadPcs \ {"makedirs"} => (call.active /\ call.path = file_name)
    /\ InCollectionOrder
    /\ (~args.history_file /\ ~args.print_source /\ pc \in DownloadPcs \cup {"for_video", "exit"}) =>
          /\ Len(calls) = vidx - 1
          /\ \A k \in 1..Len(calls) : calls[k].path = video_target_collection[k].filename

\* C24 witness: three videos of two links, two of them of the first link, were
\* downloaded one after the other and main() is at its end.
C24_Witness ==
    /\ pc = "exit" /\ Len(calls) = 3
    /\ origins = <<<<1, 0>>, <<1, 1>>, <<2, 0>>>>
    /\ \A k \in 1..3 : calls[k].fetched

----------------------------------------------------------------------------
(* Claims about interrupted downloads, under SpecDownload *)

\* C26: opening file_name + ".part" leaves it empty whatever an earlier attempt
\* left there; while the body is written the .part file holds exactly the part
\* of this response's body consumed so far; and the file a call that fetched
\* has published holds exactly the body of that call's response.
C26_StalePartTruncated ==
    /\ pc = "get" => part[file_name] = [exists |-> TRUE, data |-> <<>>]
    /\ pc \in {"write_content", "iter_content", "rename"} =>
          part[file_name].data \o resp.rest = resp.body
    /\ (pc = "for_video" /\ call.active /\ call.fetched) =>
          /\ final[call.path].exists
          /\ final[call.path].data = served[call.path]

\* C26 witness: a later invocation found a non-empty .part file of an interrupted
\* attempt, fetched again and published a file with a non-empty body.
C26_Witness ==
    /\ run = 2 /\ pc = "for_video"
    /\ call.active /\ call.fetched
    /\ call.stale
    /\ final[call.path].exists /\ final[call.path].data # <<>>

----------------------------------------------------------------------------
(* Claims about the entries of a syllabus, under SpecResolve *)

\* C27: scrape_videos_for_lecture is not called (no per-lesson media request is
\* made) for an entry whose medias list is empty.
C27_EmptyMediasNotRequested ==
    pc = "lecture" => lecture_session.medias # "empty"

----------------------------------------------------------------------------
(* Claims about the history file across invocations, under SpecDownload *)

\* main() has just skipped the video before vidx because of the history file.
SkippedOnHistory ==
    /\ halt = "no" /\ pc = "for_video" /\ vidx > 1
    /\ args.history_file /\ ~args.print_source
    /\ call = NoCall

\* C28: a video whose download was interrupted, so that only its .part file
\* exists, is not skipped because of the history file by a later invocation.
C28_InterruptedFetchedAgain ==
    (run > 1 /\ SkippedOnHistory) =>
       LET f == video_target_collection[vidx - 1].filename
       IN  ~(part[f].exists /\ ~final[f].exists)

\* C29: a video is skipped because of the history file only if its source URL
\* is one of the lines of the file.
C29_SkippedOnlyOnEqualLine ==
    SkippedOnHistory =>
       video_target_collection[vidx - 1].video_src_link \in Range(Lines(history.text))

----------------------------------------------------------------------------
(* Claims about the selected indices, under Spec *)

\* C30: available_videos[i] never fails for an index i of the selection, with
\* --all and with every line interactive_video_selection accepts.
C30_SelectedIndicesValid ==
    ~(pc = "found" /\ halt = "exception")

----------------------------------------------------------------------------
(* Claims about the response download() publishes, under SpecDownload *)

\* C31: a file appears at file_name only when the response fetched for it had a
\* successful status; after an HTTP error status no file is created there.
C31_PublishedOnlyIfOk ==
    [][\A f \in FileNames :
          (~final[f].exists /\ final'[f].exists) => resp.status = "ok"]_vars

====
